---- MODULE Spec2Model ----
(***************************************************************************)
(* A model of wapipedia's ZIM reader (pkg/wikipedia/zim.go), its Bluge     *)
(* index build pipeline and the article layer on top of them               *)
(* (pkg/wikipedia/download.go).                                            *)
(*                                                                         *)
(* Every subsystem has its own variables and its own specification; under  *)
(* a specification the variables of the other subsystems keep their        *)
(* initial value.                                                          *)
(***************************************************************************)
EXTENDS Integers, Sequences, FiniteSets, TLC

VARIABLES
    \* ---- FindArticleByURL (zim.go:428-454)
    findZ,      \* the reader the call runs on
    findNs,     \* the call's namespace argument
    findURL,    \* the call's url argument
    left,       \* uint32, as [hi, lo]
    right,      \* uint32, as [hi, lo]
    findPc,     \* "idle" | "loop" | "done"
    findRet,    \* [err, idx]: what the call returned
    \* ---- GetBlob (zim.go:280-397)
    blobZ,          \* the reader the calls run on
    reads,          \* the clusterNum of every call that got past the range check, in order
    clusterCache,   \* the decompressed clusters the reader keeps between calls, LRU first.
                    \* ZIMReader (zim.go:55-63) has no field for them and GetBlob's
                    \* clusterData is a local (zim.go:316): no action changes it.
    blobRet,        \* what the last call did: [outcome, err, start, end]
    \* ---- GetArticleContent (zim.go:400-425)
    contZ,      \* the reader the call runs on
    contEntry,  \* the local `entry`
    contPc,     \* "idle" | "chase" | "done"
    contTick,   \* the parity of the number of GetDirectoryEntry calls the call has made
    contIdx,    \* the call's idx argument
    contRet,    \* [err, cluster, start, end, mimeType]: what the call returned
    \* ---- getArticleWithRedirectDepth (download.go:268-341)
    artZ,       \* the reader behind the Wikipedia instance
    artStack,   \* the frames of getArticleWithRedirectDepth, outermost first: [idx, depth]
    artRet,     \* [err, Index]: what the top call returned, "none" while it runs
    \* ---- BuildBlugeIndex (zim.go:508-695)
    buildZ,         \* the reader opened on zimPath
    numWorkers,     \* runtime.NumCPU()
    readI,          \* the reader goroutine's loop variable i
    readerDone,     \* readerWg is zero
    entryChan,      \* the buffered channel of indexEntry
    entryClosed,    \* close(entryChan) has run
    workers,        \* per worker: [pc, idx]
    docChan,        \* the buffered channel of documents
    docClosed,      \* close(docChan) has run
    batch,          \* the documents of the writer's open batch
    writerPc,       \* "run" | "done"
    index,          \* the documents writer.Batch has committed
    errChan,        \* the one-slot error channel
    articleCount,   \* the atomic counter of documents taken by the writer
    mainPc,         \* "waitReader" | "waitWriter" | "check" | "returned"
    buildErr,       \* what BuildBlugeIndex returned
    builds,         \* the calls of BuildBlugeIndex made so far on the same indexPath
    \* ---- GetDirectoryEntry and GetBlob called with any index (zim.go:187-190, 280-283)
    rdZ,        \* the reader the calls run on
    rdCall,     \* the last call: [op, idx, cluster, blob]
    rdRet,      \* what it did: [outcome, err, read]; read: it got as far as reading the file
    \* ---- GetDirectoryEntry on the bytes of one entry (zim.go:203-267)
    entBytes,   \* the bytes of the file from urlPtrs[idx] on
    entRet,     \* [err, entry, ParamLen]: what the call returned
    \* ---- GetRandomArticle (download.go:540-601)
    rndZ,       \* the reader behind the Wikipedia instance
    rndIndexed, \* w.blugeIndex is not nil
    rndI,       \* the loop variable i
    rndPc,      \* "idle" | "loop" | "done"
    rndRet,     \* [err, Index, picked]: what the call returned and the idx it had drawn
    \* ---- GetImage (download.go:344-365)
    imgZ,       \* the reader behind the Wikipedia instance
    imgPath,    \* the call's path argument
    imgRet,     \* [op, err, idx]: the call made, its error and the entry it found
    \* ---- BlugeIndex.Search (zim.go:724-771)
    searchQuery,    \* the call's query argument
    searchRet,      \* [called, err, clauses]: the should-clauses of the boolean query built
    \* ---- concurrent GetDirectoryEntry and GetBlob on one reader (zim.go:187-397)
    mu,         \* z.mu: [writer, readers]
    filePos,    \* the offset of z.file
    calls,      \* per caller: [o, pc, ptr, reads, err]; reads: the offsets it has read from
    \* ---- BlugeIndex.GetDocumentCount (zim.go:827-864)
    cacheMu,    \* b.cacheMu: [writer, readers]
    docCount,   \* b.docCount
    docCached,  \* b.docCached
    countCalls, \* per caller: [pc, ret, err]
    countEnv,   \* [documents, searches]: the documents of the index and the match-all
                \* queries that have succeeded
    \* ---- the random-ID cache of the server (server.go:25-157)
    randomIDCache,  \* the slice of IDs
    randomIDMutex,  \* the goroutine that holds the mutex, "none" if free
    randomIDRefill, \* the number of signals in the buffered channel
    ridProcs,       \* per goroutine: [pc, i, count]
    ridEnv,         \* [dropped, owed]: a signal was dropped; the pops not yet followed by a fill
    \* ---- serveWikiSearch and serveWikiArticle (server.go:183-313)
    srvReq,     \* the request: [handler, param, items]
    srvResp,    \* the response: [outcome, from, to, ShowMore]
    \* ---- SplitContent (download.go:1149-1191)
    splitArgs,  \* [content, maxLength]
    splitRet,   \* [called, chunks]
    \* ---- DownloadDump (download.go:34-120)
    dlPc,       \* where the call is
    dlFs,       \* [temp, dest]: what is at tempPath and at destPath
    dlCall,     \* [body, downloaded, made]: the response and the call's progress
    dlRet       \* what the call returned

findVars == <<findZ, findNs, findURL, left, right, findPc, findRet>>

blobVars == <<blobZ, reads, clusterCache, blobRet>>

contVars == <<contZ, contEntry, contPc, contTick, contIdx, contRet>>

artVars == <<artZ, artStack, artRet>>

buildVars == <<buildZ, numWorkers, readI, readerDone, entryChan, entryClosed, workers, docChan,
               docClosed, batch, writerPc, index, errChan, articleCount, mainPc, buildErr>>

rangeVars == <<rdZ, rdCall, rdRet>>

entVars == <<entBytes, entRet>>

rndVars == <<rndZ, rndIndexed, rndI, rndPc, rndRet>>

imgVars == <<imgZ, imgPath, imgRet>>

searchVars == <<searchQuery, searchRet>>

lockVars == <<mu, filePos, calls>>

countVars == <<cacheMu, docCount, docCached, countCalls, countEnv>>

ridVars == <<randomIDCache, randomIDMutex, randomIDRefill, ridProcs, ridEnv>>

srvVars == <<srvReq, srvResp>>

splitVars == <<splitArgs, splitRet>>

dlVars == <<dlPc, dlFs, dlCall, dlRet>>

\* the concurrent callers, the server and the download
frontVars == <<lockVars, countVars, ridVars, srvVars, splitVars, dlVars>>

vars == <<findVars, blobVars, contVars, artVars, buildVars, builds, rangeVars, entVars, rndVars,
          imgVars, searchVars, frontVars>>

\* the reader's own methods and the layers on top of it
readerVars == <<findVars, blobVars, contVars, rangeVars, entVars>>

layerVars == <<artVars, rndVars, imgVars, searchVars>>

notFind == <<blobVars, contVars, rangeVars, entVars, layerVars, buildVars, builds, frontVars>>
notBlob == <<findVars, contVars, rangeVars, entVars, layerVars, buildVars, builds, frontVars>>
notCont == <<findVars, blobVars, rangeVars, entVars, layerVars, buildVars, builds, frontVars>>
notArt == <<readerVars, rndVars, imgVars, searchVars, buildVars, builds, frontVars>>
notRebuild == <<readerVars, layerVars, frontVars>>
notBuild == <<notRebuild, builds>>
notRange == <<findVars, blobVars, contVars, entVars, layerVars, buildVars, builds, frontVars>>
notEnt == <<findVars, blobVars, contVars, rangeVars, layerVars, buildVars, builds, frontVars>>
notRnd == <<readerVars, artVars, imgVars, searchVars, buildVars, builds, frontVars>>
notImg == <<readerVars, artVars, rndVars, searchVars, buildVars, builds, frontVars>>
notSearch == <<readerVars, artVars, rndVars, imgVars, buildVars, builds, frontVars>>

backVars == <<readerVars, layerVars, buildVars, builds>>

notLock == <<backVars, countVars, ridVars, srvVars, splitVars, dlVars>>
notCount == <<backVars, lockVars, ridVars, srvVars, splitVars, dlVars>>
notRid == <<backVars, lockVars, countVars, srvVars, splitVars, dlVars>>
notSrv == <<backVars, lockVars, countVars, ridVars, splitVars, dlVars>>
notSplit == <<backVars, lockVars, countVars, ridVars, srvVars, dlVars>>
notDl == <<backVars, lockVars, countVars, ridVars, srvVars, splitVars>>

(***************************************************************************)
(* uint32 arithmetic.  TLC's integers are 32-bit signed, so a uint32 is    *)
(* kept as its two 16-bit halves and every operation wraps modulo 2^32 as  *)
(* Go's does.                                                              *)
(***************************************************************************)
Half == 2^16

U32(n) == [hi |-> n \div Half, lo |-> n % Half]

MaxU32 == [hi |-> Half - 1, lo |-> Half - 1]

U32Less(a, b) == a.hi < b.hi \/ (a.hi = b.hi /\ a.lo < b.lo)

U32Leq(a, b) == a = b \/ U32Less(a, b)

U32Add(a, b) ==
    LET lo == a.lo + b.lo
        hi == a.hi + b.hi + (lo \div Half)
    IN  [hi |-> hi % Half, lo |-> lo % Half]

U32Inc(a) == U32Add(a, U32(1))

U32Dec(a) == U32Add(a, MaxU32)

U32Div2(a) == [hi |-> a.hi \div 2, lo |-> (a.lo \div 2) + (a.hi % 2) * (Half \div 2)]

\* only for values below 2^31
U32Val(a) == a.hi * Half + a.lo

(***************************************************************************)
(* Strings are sequences of byte values.                                   *)
(***************************************************************************)
RECURSIVE StringsCompare(_, _)
StringsCompare(a, b) ==
    IF a = <<>> /\ b = <<>> THEN 0
    ELSE IF a = <<>> THEN -1
    ELSE IF b = <<>> THEN 1
    ELSE IF a[1] < b[1] THEN -1
    ELSE IF a[1] > b[1] THEN 1
    ELSE StringsCompare(Tail(a), Tail(b))

compareNamespaceURL(ns1, url1, ns2, url2) ==
    IF ns1 < ns2 THEN -1
    ELSE IF ns1 > ns2 THEN 1
    ELSE StringsCompare(url1, url2)

HasPrefix(s, prefix) == Len(s) >= Len(prefix) /\ SubSeq(s, 1, Len(prefix)) = prefix

HasSuffix(s, suffix) ==
    Len(s) >= Len(suffix) /\ SubSeq(s, Len(s) - Len(suffix) + 1, Len(s)) = suffix

Contains(s, sub) == \E k \in 0..(Len(s) - Len(sub)) : SubSeq(s, k + 1, k + Len(sub)) = sub

TrimPrefix(s, prefix) ==
    IF HasPrefix(s, prefix) THEN SubSeq(s, Len(prefix) + 1, Len(s)) ELSE s

\* strings.Index(s, <<b>>): the 0-based place of the first byte b, or -1
IndexByte(s, b) ==
    IF \E k \in 1..Len(s) : s[k] = b
    THEN (CHOOSE k \in 1..Len(s) : s[k] = b /\ \A j \in 1..(k - 1) : s[j] # b) - 1
    ELSE -1

\* strings.ToLower on ASCII
ToLower(s) == [k \in 1..Len(s) |-> IF s[k] >= 65 /\ s[k] <= 90 THEN s[k] + 32 ELSE s[k]]

NsA == 65
NsC == 67
NsI == 73
NsDash == 45

(***************************************************************************)
(* Directory entries.  MimeType 0xFFFF marks a redirect (zim.go:222);      *)
(* TLC's integers being signed 32-bit, any MimeType would fit, and the     *)
(* model keeps the sentinel as the value it is.                            *)
(***************************************************************************)
RedirectMime == 65535

NoEntry == [MimeType |-> 0, Namespace |-> 0, ClusterNum |-> 0, BlobNum |-> 0,
            URL |-> <<>>, Title |-> <<>>, RedirectIdx |-> [hi |-> 0, lo |-> 0],
            IsRedirect |-> FALSE]

\* lines 203-264 on a content entry; an empty title defaults to the url (262-264)
ContentEntry(ns, url, title, mime, cluster, blob) ==
    [MimeType |-> mime, Namespace |-> ns, ClusterNum |-> cluster, BlobNum |-> blob,
     URL |-> url, Title |-> IF title = <<>> THEN url ELSE title,
     RedirectIdx |-> [hi |-> 0, lo |-> 0], IsRedirect |-> FALSE]

\* lines 203-264 on a redirect entry: target is RedirectIdx, a uint32
RedirectEntry(ns, url, title, target) ==
    [MimeType |-> RedirectMime, Namespace |-> ns, ClusterNum |-> 0, BlobNum |-> 0,
     URL |-> url, Title |-> IF title = <<>> THEN url ELSE title,
     RedirectIdx |-> target, IsRedirect |-> TRUE]

HexDigit(d) == IF d < 10 THEN 48 + d ELSE 87 + d

Hex4(n) == << HexDigit((n \div 4096) % 16), HexDigit((n \div 256) % 16),
              HexDigit((n \div 16) % 16), HexDigit(n % 16) >>

Hex8(u) == Hex4(u.hi) \o Hex4(u.lo)

DenseEntry(idx) == ContentEntry(NsA, Hex8(idx), <<>>, 0, 0, 0)

(***************************************************************************)
(* Clusters.  A decompressed cluster is its length in bytes and its        *)
(* complete little-endian 32-bit words (the offset table is read from its  *)
(* head, zim.go:363-387).  A cluster on disk is its info byte and its      *)
(* payload: raw is the payload as stored, codec the compression that       *)
(* produced it, plain what that codec decodes it to.                       *)
(***************************************************************************)
Data(len, words) == [len |-> len, words |-> words]

NoData == Data(0, <<>>)

Stored(info, codec, raw, plain) == [info |-> info, codec |-> codec, raw |-> raw, plain |-> plain]

StoredPlain(data) == Stored(0, "none", data, NoData)

HeaderSize == 80

ChecksumSize == 16

RECURSIVE LayOut(_, _)
\* the cluster pointers of clusters stored one after the other from offset from
LayOut(stored, from) ==
    IF stored = <<>> THEN <<>>
    ELSE <<from>> \o LayOut(Tail(stored), from + 1 + Head(stored).raw.len)

EndOf(stored) ==
    LET ptrs == LayOut(stored, HeaderSize)
    IN  IF stored = <<>> THEN HeaderSize
        ELSE ptrs[Len(ptrs)] + 1 + stored[Len(stored)].raw.len

(***************************************************************************)
(* The reader.  A ZIMReader is modelled by what its methods read: the      *)
(* header's counts and ChecksumPos, the content-type list, the directory   *)
(* entries behind urlPtrs and the clusters behind clusterPtrs.             *)
(*   dense = FALSE: the directory is the explicit sequence dir.            *)
(*   dense = TRUE : entry i is in namespace 'A' with the 8 hex digits of   *)
(*                  i as its url, so that a directory of up to 2^32 - 1    *)
(*                  sorted entries needs no explicit sequence.             *)
(* unreadable holds the indices whose Seek or Read fails.  html[c][b] is   *)
(* what the article layer sees in blob b of cluster c.                     *)
(* The clusters lie one after the other from HeaderSize on and the MD5     *)
(* checksum ends the file.                                                 *)
(***************************************************************************)
Reader(dir, stored, mimeTypes, html) ==
    [ArticleCount |-> U32(Len(dir)), dense |-> FALSE, dir |-> dir, unreadable |-> {},
     mimeTypes |-> mimeTypes,
     ClusterCount |-> Len(stored), clusterPtrs |-> LayOut(stored, HeaderSize),
     ChecksumPos |-> EndOf(stored), fileSize |-> EndOf(stored) + ChecksumSize,
     stored |-> stored, html |-> html]

NoReader == Reader(<<>>, <<>>, <<>>, <<>>)

ListReader(dir) == Reader(dir, <<>>, <<>>, <<>>)

DenseReader(count) == [NoReader EXCEPT !.ArticleCount = count, !.dense = TRUE]

BlobReader(stored) == Reader(<<>>, stored, <<>>, <<>>)

EntryAt(z, idx) == IF z.dense THEN DenseEntry(idx) ELSE z.dir[U32Val(idx) + 1]

GetDirectoryEntry(z, idx) ==
    IF ~U32Less(idx, z.ArticleCount)
    THEN [err |-> "index out of range", entry |-> NoEntry]
    ELSE IF idx \in z.unreadable
    THEN [err |-> "io", entry |-> NoEntry]
    ELSE [err |-> "nil", entry |-> EntryAt(z, idx)]

(***************************************************************************)
(* FindArticleByURL: the state of the binary search is (left, right); one  *)
(* FindLoopBody is one iteration of `for left <= right`.                   *)
(***************************************************************************)
FindState(l, r, pc, err, idx) ==
    [left |-> l, right |-> r, pc |-> pc, ret |-> [err |-> err, idx |-> idx]]

\* mid := (left + right) / 2, in uint32
FindMid(l, r) == U32Div2(U32Add(l, r))

FindEnter(z) == FindState(U32(0), U32Dec(z.ArticleCount), "loop", "nil", U32(0))

FindLoopBody(z, namespace, url, st) ==
    IF ~U32Leq(st.left, st.right)
    THEN FindState(st.left, st.right, "done", "article not found", U32(0))
    ELSE
      LET mid == FindMid(st.left, st.right)
          got == GetDirectoryEntry(z, mid)
          cmp == compareNamespaceURL(got.entry.Namespace, got.entry.URL, namespace, url)
      IN  IF got.err # "nil"
          THEN FindState(st.left, st.right, "done", got.err, U32(0))
          ELSE IF cmp = 0
          THEN FindState(st.left, st.right, "done", "nil", mid)
          ELSE IF cmp < 0
          THEN FindState(U32Inc(mid), st.right, "loop", "nil", U32(0))
          ELSE IF mid = U32(0)
          THEN FindState(st.left, st.right, "done", "article not found", U32(0))
          ELSE FindState(st.left, U32Dec(mid), "loop", "nil", U32(0))

(***************************************************************************)
(* GetBlob                                                                 *)
(***************************************************************************)
BlobResult(outcome, err, start, end) ==
    [outcome |-> outcome, err |-> err, start |-> start, end |-> end]

BlobError(err) == BlobResult("error", err, 0, 0)

BlobPanic(err) == BlobResult("panic", err, 0, 0)

\* lines 285-292
ClusterPtr(z, clusterNum) == z.clusterPtrs[clusterNum + 1]

NextClusterPtr(z, clusterNum) ==
    IF clusterNum + 1 < z.ClusterCount THEN z.clusterPtrs[clusterNum + 2] ELSE z.ChecksumPos

\* clusterSize := int64(nextClusterPtr - clusterPtr - 1), line 310.  The pointers of
\* the model are far below 2^63, so the uint64 difference read as int64 is the
\* integer difference.
ClusterSize(z, clusterNum) == NextClusterPtr(z, clusterNum) - ClusterPtr(z, clusterNum) - 1

\* the clusterSize bytes after the info byte: the stored payload when the extent is
\* the stored one, its head when the extent is shorter
CompressedData(z, clusterNum) ==
    LET st   == z.stored[clusterNum + 1]
        size == ClusterSize(z, clusterNum)
    IN  IF size = st.raw.len THEN st
        ELSE [info |-> st.info, codec |-> "cut",
              raw |-> Data(size, SubSeq(st.raw.words, 1, size \div 4)), plain |-> NoData]

\* the decoders of compress/flate, ulikunitz/xz and klauspost/zstd: each accepts the
\* payloads its codec produced.  "xzcut" is an XZ stream cut short: its header is
\* accepted by xz.NewReader and reading it fails.
FlateReadAll(c) == IF c.codec = "deflate" THEN [err |-> "nil", data |-> c.plain]
                   ELSE [err |-> "flate", data |-> NoData]

XzNewReader(c) == IF c.codec \in {"xz", "xzcut"} THEN "nil" ELSE "xz header"

XzReadAll(c) == IF c.codec = "xz" THEN [err |-> "nil", data |-> c.plain]
                ELSE [err |-> "xz", data |-> NoData]

ZstdNewReader(c) == "nil"

ZstdReadAll(c) == IF c.codec = "zstd" THEN [err |-> "nil", data |-> c.plain]
                  ELSE [err |-> "zstd", data |-> NoData]

\* the whole info byte taken as the tag
CompressionUnmasked(info) == info

\* compression := clusterInfo[0] & 0x0F, line 308
Compression(info) == info % 16

\* the switch on compression, lines 319-360: [err, data, tried]
Decompress(compression, c) ==
    CASE compression \in {0, 1} -> [err |-> "nil", data |-> c.raw, tried |-> {}]
      [] compression = 4 ->
            LET r == FlateReadAll(c)
            IN  [err |-> IF r.err = "nil" THEN "nil" ELSE "failed to decompress zlib cluster",
                 data |-> r.data, tried |-> {"flate"}]
      [] compression = 5 ->
            IF XzNewReader(c) # "nil"
            THEN IF ZstdNewReader(c) # "nil"
                 THEN [err |-> "failed to create XZ reader", data |-> NoData,
                       tried |-> {"xz", "zstd"}]
                 ELSE LET r == ZstdReadAll(c)
                      IN  [err |-> IF r.err = "nil" THEN "nil"
                                   ELSE "failed to decompress with zstd fallback",
                           data |-> r.data, tried |-> {"xz", "zstd"}]
            ELSE LET r == XzReadAll(c)
                 IN  [err |-> IF r.err = "nil" THEN "nil"
                              ELSE "failed to decompress XZ cluster",
                      data |-> r.data, tried |-> {"xz"}]
      [] compression = 6 ->
            IF ZstdNewReader(c) # "nil"
            THEN [err |-> "failed to create zstd reader", data |-> NoData, tried |-> {"zstd"}]
            ELSE LET r == ZstdReadAll(c)
                 IN  [err |-> IF r.err = "nil" THEN "nil"
                              ELSE "failed to decompress zstd cluster",
                      data |-> r.data, tried |-> {"zstd"}]
      [] OTHER -> [err |-> "unsupported compression type", data |-> NoData, tried |-> {}]

\* lines 362-396: the offset table and the slice
SliceGuard(blobStart, blobEnd, len) == blobStart > len \/ blobEnd > len

BlobOffset(data, numBlobs, i) == IF i = numBlobs THEN data.len ELSE data.words[i + 1]

\* SliceBlob with the range test of line 372 off by one (blobNum > numBlobs): the
\* read of offsets[blobNum+1] then indexes past the slice
SliceBlobLax(data, blobNum) ==
    IF data.len < 4 THEN BlobError("EOF")
    ELSE
      LET numBlobs == data.words[1] \div 4
      IN  IF blobNum > numBlobs THEN BlobError("blob index out of range")
          ELSE IF numBlobs > Len(data.words) THEN BlobError("EOF")
          ELSE IF blobNum = numBlobs THEN BlobPanic("index out of range")
          ELSE
            LET blobStart == BlobOffset(data, numBlobs, blobNum)
                blobEnd   == BlobOffset(data, numBlobs, blobNum + 1)
            IN  IF SliceGuard(blobStart, blobEnd, data.len)
                THEN BlobError("blob offset out of range")
                ELSE IF blobStart > blobEnd THEN BlobPanic("slice bounds out of range")
                ELSE BlobResult("ok", "nil", blobStart, blobEnd)

SliceBlob(data, blobNum) ==
    IF data.len < 4 THEN BlobError("EOF")
    ELSE
      LET firstOffset == data.words[1]
          numBlobs    == firstOffset \div 4
      IN  IF blobNum >= numBlobs THEN BlobError("blob index out of range")
          \* the loop reads offsets 1 .. numBlobs-1, all of them, from the cluster
          ELSE IF numBlobs > Len(data.words) THEN BlobError("EOF")
          ELSE
            LET blobStart == BlobOffset(data, numBlobs, blobNum)
                blobEnd   == BlobOffset(data, numBlobs, blobNum + 1)
            IN  IF SliceGuard(blobStart, blobEnd, data.len)
                THEN BlobError("blob offset out of range")
                \* clusterData[blobStart:blobEnd] with blobStart > blobEnd
                ELSE IF blobStart > blobEnd THEN BlobPanic("slice bounds out of range")
                ELSE BlobResult("ok", "nil", blobStart, blobEnd)

GetBlob(z, clusterNum, blobNum) ==
    IF clusterNum >= z.ClusterCount THEN BlobError("cluster index out of range")
    \* the read of the info byte, line 304
    ELSE IF ClusterPtr(z, clusterNum) >= z.fileSize THEN BlobError("EOF")
    \* make([]byte, clusterSize) with a negative size, line 311
    ELSE IF ClusterSize(z, clusterNum) < 0 THEN BlobPanic("makeslice: len out of range")
    \* io.ReadFull, line 312
    ELSE IF ClusterPtr(z, clusterNum) + 1 + ClusterSize(z, clusterNum) > z.fileSize
    THEN BlobError("unexpected EOF")
    ELSE
      LET c   == CompressedData(z, clusterNum)
          dec == Decompress(Compression(c.info), c)
      IN  IF dec.err # "nil" THEN BlobError(dec.err)
          ELSE SliceBlob(dec.data, blobNum)


\* FindArticleByURL run to its return; only for directories on which the loop ends
RECURSIVE FindRun(_, _, _, _)
FindRun(z, namespace, url, st) ==
    IF st.pc = "done" THEN st.ret ELSE FindRun(z, namespace, url, FindLoopBody(z, namespace, url, st))

FindArticleByURL(z, namespace, url) == FindRun(z, namespace, url, FindEnter(z))

(***************************************************************************)
(* GetArticleContent: the state of the redirect loop is the local `entry`; *)
(* one ContentLoopBody is one evaluation of `for entry.IsRedirect` and     *)
(* what follows it.                                                        *)
(***************************************************************************)
ContentRet(err, cluster, blob, start, end, mimeType) ==
    [err |-> err, cluster |-> cluster, blob |-> blob, start |-> start, end |-> end,
     mimeType |-> mimeType]

ContentState(pc, entry, ret) == [pc |-> pc, entry |-> entry, ret |-> ret]

ContentFail(err) == ContentState("done", NoEntry, ContentRet(err, 0, 0, 0, 0, ""))

\* lines 419-422
MimeTypeOf(z, entry) ==
    IF entry.MimeType < Len(z.mimeTypes) THEN z.mimeTypes[entry.MimeType + 1] ELSE ""

\* lines 401-404
ContentEnter(z, idx) ==
    LET got == GetDirectoryEntry(z, idx)
    IN  IF got.err # "nil" THEN ContentFail(got.err)
        ELSE ContentState("chase", got.entry, ContentRet("nil", 0, 0, 0, 0, ""))

\* ContentLoopBody with `if entry.IsRedirect` for `for entry.IsRedirect`: one hop,
\* then the read of whatever entry the hop led to
ContentLoopBodyOneHop(z, entry) ==
    LET got  == GetDirectoryEntry(z, entry.RedirectIdx)
        last == IF entry.IsRedirect THEN got.entry ELSE entry
        content == GetBlob(z, last.ClusterNum, last.BlobNum)
    IN  IF entry.IsRedirect /\ got.err # "nil" THEN ContentFail(got.err)
        ELSE IF content.outcome = "panic" THEN ContentFail("panic")
        ELSE IF content.outcome = "error" THEN ContentFail(content.err)
        ELSE ContentState("done", last,
                          ContentRet("nil", last.ClusterNum, last.BlobNum,
                                     content.start, content.end, MimeTypeOf(z, last)))

\* lines 407-424
ContentLoopBody(z, entry) ==
    IF entry.IsRedirect
    THEN LET got == GetDirectoryEntry(z, entry.RedirectIdx)
         IN  IF got.err # "nil" THEN ContentFail(got.err)
             ELSE ContentState("chase", got.entry, ContentRet("nil", 0, 0, 0, 0, ""))
    ELSE LET content == GetBlob(z, entry.ClusterNum, entry.BlobNum)
         IN  IF content.outcome = "panic" THEN ContentFail("panic")
             ELSE IF content.outcome = "error" THEN ContentFail(content.err)
             ELSE ContentState("done", entry,
                               ContentRet("nil", entry.ClusterNum, entry.BlobNum,
                                          content.start, content.end, MimeTypeOf(z, entry)))

\* GetArticleContent run to its return; only for directories whose redirect chains end
RECURSIVE ContentRun(_, _)
ContentRun(z, st) == IF st.pc = "done" THEN st.ret ELSE ContentRun(z, ContentLoopBody(z, st.entry))

GetArticleContent(z, idx) == ContentRun(z, ContentEnter(z, idx))

(***************************************************************************)
(* The article layer.  What it looks for in a page is whether the page     *)
(* holds the text http-equiv="refresh" and what the group of the regular   *)
(* expression reRefresh (line 297) matches: a page is                      *)
(* [refresh, matched, url].                                                *)
(***************************************************************************)
Page(refresh, matched, url) == [refresh |-> refresh, matched |-> matched, url |-> url]

PlainPage == Page(FALSE, FALSE, <<>>)

RefreshPage(url) == Page(TRUE, TRUE, url)

PageOf(z, content) == z.html[content.cluster + 1][content.blob + 1]

\* lines 300-306: strip a leading "./" and a "#fragment"
CleanTarget(url) ==
    LET target == TrimPrefix(url, <<46, 47>>)
        hash   == IndexByte(target, 35)
    IN  IF hash # -1 THEN SubSeq(target, 1, hash) ELSE target

\* GetArticleByURL up to its call of GetArticle: lines 331-339
FindArticleAC(z, url) ==
    LET a == FindArticleByURL(z, NsA, url)
    IN  IF a.err = "nil" THEN a ELSE FindArticleByURL(z, NsC, url)

MaxRedirectDepth == 5

\* the depth GetArticleByURL's callee runs at, called from a frame of depth `depth`:
\* GetArticleByURL calls GetArticle (340), GetArticle calls GetArticleWithOptions (269),
\* which calls getArticleWithRedirectDepth(idx, 0, opts) (274)
DepthPassedOn(depth) == 0

ArticleRet(err, Index) == [err |-> err, Index |-> Index]

NoArticle == ArticleRet("none", U32(0))

\* a frame of getArticleWithRedirectDepth: its arguments idx and depth, where it is
\* ("run": at line 279, "await": in the call of line 308, "resume": back from it)
\* and what the call of line 308 returned
Frame(idx, depth, pc, ret) == [idx |-> idx, depth |-> depth, pc |-> pc, ret |-> ret]

\* lines 279-327 of one frame: [do |-> "return", ret] or [do |-> "call", idx]
ArticleBody(z, f) ==
    IF f.depth > MaxRedirectDepth
    THEN [do |-> "return", ret |-> ArticleRet("too many redirects", f.idx), idx |-> f.idx]
    ELSE
      LET got     == GetDirectoryEntry(z, f.idx)
          content == GetArticleContent(z, f.idx)
          page    == PageOf(z, content)
          found   == FindArticleAC(z, CleanTarget(page.url))
      IN  IF got.err # "nil"
          THEN [do |-> "return", ret |-> ArticleRet(got.err, f.idx), idx |-> f.idx]
          ELSE IF content.err # "nil"
          THEN [do |-> "return", ret |-> ArticleRet(content.err, f.idx), idx |-> f.idx]
          ELSE IF page.refresh /\ page.matched /\ found.err = "nil"
          THEN [do |-> "call", ret |-> ArticleRet("nil", f.idx), idx |-> found.idx]
          ELSE [do |-> "return", ret |-> ArticleRet("nil", f.idx), idx |-> f.idx]

(***************************************************************************)
(* BuildBlugeIndex: what the reader goroutine indexes (zim.go:570-590).    *)
(***************************************************************************)
ResourceSuffixes ==
    { <<46, 99, 115, 115>>,             \* .css
      <<46, 106, 115>>,                 \* .js
      <<46, 112, 110, 103>>,            \* .png
      <<46, 106, 112, 103>>,            \* .jpg
      <<46, 106, 112, 101, 103>>,       \* .jpeg
      <<46, 103, 105, 102>>,            \* .gif
      <<46, 115, 118, 103>>,            \* .svg
      <<46, 105, 99, 111>>,             \* .ico
      <<46, 119, 111, 102, 102>>,       \* .woff
      <<46, 119, 111, 102, 102, 50>>,   \* .woff2
      <<46, 116, 116, 102>>,            \* .ttf
      <<46, 101, 111, 116>> }           \* .eot

IsResourceURL(URL) ==
    LET url == ToLower(URL)
    IN  \/ \E suffix \in ResourceSuffixes : HasSuffix(url, suffix)
        \/ Contains(url, <<47, 45, 47>>)    \* "/-/"

IsIndexed(entry) ==
    /\ entry.Namespace = NsA \/ entry.Namespace = NsC
    /\ ~entry.IsRedirect
    /\ ~IsResourceURL(entry.URL)

\* the program's constants, scaled: batchSize is 10000 (line 534) and the channels
\* hold numWorkers * 1000 (line 535)
batchSize == 2

BufferPerWorker == 1

channelBuffer(n) == n * BufferPerWorker

\* a bag over the entry indices: the documents of a batch or of the index, by id
EmptyBag(z) == [k \in 0..(U32Val(z.ArticleCount) - 1) |-> 0]

BagAdd(bag, k) == [bag EXCEPT ![k] = @ + 1]

BagSum(a, b) == [k \in DOMAIN a |-> a[k] + b[k]]

RECURSIVE BagSize(_, _)
BagSize(bag, n) == IF n = 0 THEN 0 ELSE bag[n - 1] + BagSize(bag, n - 1)

batchCount(bag) == BagSize(bag, Cardinality(DOMAIN bag))

(***************************************************************************)
(* The value the variables of a subsystem keep under the specifications    *)
(* of the others.                                                          *)
(***************************************************************************)
IdleFind ==
    /\ findZ = NoReader
    /\ findNs = 0
    /\ findURL = <<>>
    /\ left = U32(0)
    /\ right = U32(0)
    /\ findPc = "idle"
    /\ findRet = [err |-> "nil", idx |-> U32(0)]

IdleBlob ==
    /\ blobZ = NoReader
    /\ reads = <<>>
    /\ clusterCache = <<>>
    /\ blobRet = BlobResult("none", "nil", 0, 0)

IdleCont ==
    /\ contZ = NoReader
    /\ contEntry = NoEntry
    /\ contPc = "idle"
    /\ contTick = 0
    /\ contIdx = U32(0)
    /\ contRet = ContentRet("none", 0, 0, 0, 0, "")

IdleArt ==
    /\ artZ = NoReader
    /\ artStack = <<>>
    /\ artRet = NoArticle

IdleBuild ==
    /\ buildZ = NoReader
    /\ numWorkers = 0
    /\ readI = 0
    /\ readerDone = FALSE
    /\ entryChan = <<>>
    /\ entryClosed = FALSE
    /\ workers = <<>>
    /\ docChan = <<>>
    /\ docClosed = FALSE
    /\ batch = <<>>
    /\ writerPc = "idle"
    /\ index = <<>>
    /\ errChan = <<>>
    /\ articleCount = 0
    /\ mainPc = "idle"
    /\ buildErr = "none"
    /\ builds = 0

IdleRange ==
    /\ rdZ = NoReader
    /\ rdCall = [op |-> "none", idx |-> U32(0), cluster |-> 0, blob |-> 0]
    /\ rdRet = [outcome |-> "none", err |-> "nil", read |-> FALSE]

IdleEnt ==
    /\ entBytes = <<>>
    /\ entRet = [err |-> "none", entry |-> NoEntry, ParamLen |-> 0]

IdleRnd ==
    /\ rndZ = NoReader
    /\ rndIndexed = FALSE
    /\ rndI = 0
    /\ rndPc = "idle"
    /\ rndRet = [err |-> "none", Index |-> U32(0), picked |-> U32(0)]

IdleImg ==
    /\ imgZ = NoReader
    /\ imgPath = <<>>
    /\ imgRet = [op |-> "none", err |-> "none", idx |-> U32(0)]

IdleSearch ==
    /\ searchQuery = <<>>
    /\ searchRet = [called |-> FALSE, err |-> "nil", clauses |-> <<>>]

\* the subsystems that are not part of the reader's core
IdleLayers == IdleRange /\ IdleEnt /\ IdleRnd /\ IdleImg /\ IdleSearch

\* a sync.RWMutex nobody holds
RWFree == [writer |-> 0, readers |-> {}]

IdleLock ==
    /\ mu = RWFree
    /\ filePos = 0
    /\ calls = <<>>

IdleCount ==
    /\ cacheMu = RWFree
    /\ docCount = 0
    /\ docCached = FALSE
    /\ countCalls = <<>>
    /\ countEnv = [documents |-> 0, searches |-> 0]

IdleRid ==
    /\ randomIDCache = <<>>
    /\ randomIDMutex = "none"
    /\ randomIDRefill = 0
    /\ ridProcs = <<>>
    /\ ridEnv = [dropped |-> FALSE, owed |-> 0]

IdleSrv ==
    /\ srvReq = [handler |-> "none", param |-> 0, items |-> 0]
    /\ srvResp = [outcome |-> "none", from |-> 0, to |-> 0, ShowMore |-> FALSE]

IdleSplit ==
    /\ splitArgs = [content |-> <<>>, maxLength |-> 0]
    /\ splitRet = [called |-> FALSE, chunks |-> <<>>]

IdleDl ==
    /\ dlPc = "idle"
    /\ dlFs = [temp |-> 0 - 1, dest |-> 0 - 1]
    /\ dlCall = [body |-> 0, downloaded |-> 0, made |-> FALSE]
    /\ dlRet = "none"

IdleFront == IdleLock /\ IdleCount /\ IdleRid /\ IdleSrv /\ IdleSplit /\ IdleDl

IdleBack == IdleFind /\ IdleBlob /\ IdleCont /\ IdleArt /\ IdleBuild /\ IdleLayers


(***************************************************************************)
(* The readers and arguments FindArticleByURL is run on: every directory   *)
(* of at most MaxFindEntries entries sorted strictly by (namespace, url)   *)
(* over FindKeys, and the dense directories of DenseCounts entries.        *)
(***************************************************************************)
MaxFindEntries == 3

FindURLs == { <<97>>, <<97, 98>>, <<98>> }

FindKeys == { ContentEntry(ns, url, <<>>, 0, 0, 0) : ns \in {NsA, NsC}, url \in FindURLs }

IsSortedDir(dir) ==
    \A i, j \in 1..Len(dir) :
        i < j => compareNamespaceURL(dir[i].Namespace, dir[i].URL,
                                     dir[j].Namespace, dir[j].URL) < 0

SortedDirs(keys, n) ==
    UNION { { dir \in [1..k -> keys] : IsSortedDir(dir) } : k \in 0..n }

\* 2^32 - 1 and 2^31 + 1 entries
DenseCounts == { MaxU32, [hi |-> Half \div 2, lo |-> 1] }

DenseProbes == { U32(0), [hi |-> Half \div 2, lo |-> 0], [hi |-> Half \div 2 - 1, lo |-> Half - 1] }

FindReaders ==
    { ListReader(dir) : dir \in SortedDirs(FindKeys, MaxFindEntries) }
        \cup { DenseReader(c) : c \in DenseCounts }

FindArgs(z) ==
    IF z.dense
    THEN { [ns |-> NsA, url |-> Hex8(i)] : i \in DenseProbes }
             \cup { [ns |-> NsA, url |-> <<48>>], [ns |-> NsC, url |-> <<48>>] }
    ELSE { [ns |-> k.Namespace, url |-> k.URL] : k \in FindKeys }

FindInit ==
    /\ findZ \in FindReaders
    /\ findNs = 0
    /\ findURL = <<>>
    /\ left = U32(0)
    /\ right = U32(0)
    /\ findPc = "idle"
    /\ findRet = [err |-> "nil", idx |-> U32(0)]
    /\ IdleBlob
    /\ IdleBlob /\ IdleCont /\ IdleArt /\ IdleBuild /\ IdleLayers
    /\ IdleFront
\* a call of FindArticleByURL(namespace, url): lines 430-431
FindCall(namespace, url) ==
    /\ findPc \in {"idle", "done"}
    /\ LET st == FindEnter(findZ)
       IN  /\ left' = st.left
           /\ right' = st.right
           /\ findPc' = st.pc
           /\ findRet' = st.ret
    /\ findNs' = namespace
    /\ findURL' = url
    /\ UNCHANGED <<findZ, notFind>>

\* one iteration of the loop, or the loop's exit: lines 433-453
FindIterate ==
    /\ findPc = "loop"
    /\ LET st == FindLoopBody(findZ, findNs, findURL,
                              [left |-> left, right |-> right, pc |-> findPc, ret |-> findRet])
       IN  /\ left' = st.left
           /\ right' = st.right
           /\ findPc' = st.pc
           /\ findRet' = st.ret
    /\ UNCHANGED <<findZ, findNs, findURL, notFind>>

FindNext ==
    \/ \E a \in FindArgs(findZ) : FindCall(a.ns, a.url)
    \/ FindIterate

\* the loop runs on its own goroutine's time: an enabled iteration is taken
SpecFind == FindInit /\ [][FindNext]_vars /\ WF_vars(FindIterate)

\* does the directory hold an entry with exactly this (namespace, url)?
FindPresent(z, namespace, url) ==
    IF z.dense
    THEN /\ namespace = NsA
         /\ \E i \in DenseProbes : U32Less(i, z.ArticleCount) /\ url = Hex8(i)
    ELSE \E i \in 1..Len(z.dir) : z.dir[i].Namespace = namespace /\ z.dir[i].URL = url

FindReturnedMatch ==
    /\ findPc = "done"
    /\ findRet.err = "nil"
    /\ U32Less(findRet.idx, findZ.ArticleCount)
    /\ EntryAt(findZ, findRet.idx).Namespace = findNs
    /\ EntryAt(findZ, findRet.idx).URL = findURL

\* C7: on a directory sorted by (namespace, url), FindArticleByURL called with the
\* namespace and url of an entry of the directory returns an index whose entry has
\* exactly that namespace and that url.
C7_FindReturnsTheEntry ==
    (findPc = "loop" /\ FindPresent(findZ, findNs, findURL)) ~> FindReturnedMatch

\* C8: a call for a (namespace, url) that no entry has returns the error
\* "article not found" and no other error, for every entry count, zero included.
C8_AbsentIsNotFound ==
    (findPc = "done" /\ ~FindPresent(findZ, findNs, findURL))
        => findRet.err = "article not found"


(***************************************************************************)
(* The readers GetBlob is run on.                                          *)
(*   - one uncompressed cluster holding every decompressed cluster of at   *)
(*     most MaxClusterLen bytes whose words are in OffsetValues;           *)
(*   - three well-formed clusters (stored, zstd, XZ);                      *)
(*   - two clusters with every cluster pointer table of PointerTables and  *)
(*     every ChecksumPos of ChecksumPositions;                             *)
(*   - one cluster with every info byte of InfoBytes over every payload of *)
(*     TagPayloads.                                                        *)
(***************************************************************************)
MaxClusterLen == 9

OffsetValues == {0, 4, 8, 12}

ClusterDatas ==
    UNION { { Data(len, w) : w \in [1..(len \div 4) -> OffsetValues] } : len \in 0..MaxClusterLen }

OneBlob == Data(8, <<4, 0>>)

TwoBlobs == Data(9, <<8, 8>>)

ThreeClusters ==
    << StoredPlain(OneBlob),
       Stored(6, "zstd", Data(5, <<0>>), TwoBlobs),
       Stored(5, "xz", Data(6, <<0>>), OneBlob) >>

TwoClusters == << StoredPlain(OneBlob), StoredPlain(TwoBlobs) >>

PointerTables(z) ==
    { z.clusterPtrs,
      << z.clusterPtrs[2], z.clusterPtrs[2] >>,
      << z.clusterPtrs[1], z.fileSize + 1 >> }

ChecksumPositions(z) == { z.ChecksumPos, 0, z.ChecksumPos - 4, z.fileSize + 5 }

\* the compression tags 0 to 7 and 15, and 16, 21, 22, 23: the tags 0, 5, 6, 7 under
\* a set bit 4
InfoBytes == (0..7) \cup {15, 16, 21, 22, 23}

\* a stored blob table, its DEFLATE, XZ and zstd compressions, and an XZ stream
\* whose header is whole and whose blocks are not
TagPayloads ==
    { [codec |-> "none", raw |-> OneBlob, plain |-> NoData],
      [codec |-> "deflate", raw |-> Data(5, <<0>>), plain |-> OneBlob],
      [codec |-> "xz", raw |-> Data(6, <<0>>), plain |-> OneBlob],
      [codec |-> "xzcut", raw |-> Data(6, <<0>>), plain |-> OneBlob],
      [codec |-> "zstd", raw |-> Data(5, <<0>>), plain |-> OneBlob] }

TagReaders ==
    { BlobReader(<< Stored(info, p.codec, p.raw, p.plain) >>) :
        info \in InfoBytes, p \in TagPayloads }

BlobReaders ==
    { BlobReader(<< StoredPlain(d) >>) : d \in ClusterDatas }
        \cup { BlobReader(ThreeClusters) }
        \cup TagReaders
        \cup { [BlobReader(TwoClusters) EXCEPT !.clusterPtrs = p, !.ChecksumPos = c] :
                 p \in PointerTables(BlobReader(TwoClusters)),
                 c \in ChecksumPositions(BlobReader(TwoClusters)) }

MaxReads == 4

MaxBlobNum == 2

BlobInit ==
    /\ blobZ \in BlobReaders
    /\ reads = <<>>
    /\ clusterCache = <<>>
    /\ blobRet = BlobResult("none", "nil", 0, 0)
    /\ IdleFind
    /\ IdleFind /\ IdleCont /\ IdleArt /\ IdleBuild /\ IdleLayers
    /\ IdleFront
\* a call of GetBlob(clusterNum, blobNum).  A panic ends the goroutine.  The call
\* assigns to no field of the reader.
BlobCall(clusterNum, blobNum) ==
    /\ blobRet.outcome # "panic"
    /\ Len(reads) < MaxReads
    /\ blobRet' = GetBlob(blobZ, clusterNum, blobNum)
    /\ reads' = IF clusterNum < blobZ.ClusterCount THEN Append(reads, clusterNum) ELSE reads
    /\ UNCHANGED <<blobZ, clusterCache, notBlob>>

BlobNext == \E c \in 0..blobZ.ClusterCount, b \in 0..MaxBlobNum : BlobCall(c, b)

SpecBlob == BlobInit /\ [][BlobNext]_vars

\* C2: the cluster cache is strict LRU: with room for two clusters, reading the
\* clusters 0, 1, 0, 2 in that order leaves exactly the clusters 0 and 2 cached,
\* 2 the most recently used.
C2_LRUExample == reads = <<0, 1, 0, 2>> => clusterCache = <<0, 2>>

\* the decompressed cluster the last call sliced
LastClusterData ==
    LET c == CompressedData(blobZ, reads[Len(reads)]) IN Decompress(Compression(c.info), c).data

\* C10: GetBlob never crashes on an inconsistent offset table or cluster extent,
\* it returns an error; and the blob it returns lies inside the decompressed cluster.
C10_ErrorNotCrash ==
    /\ blobRet.outcome # "panic"
    /\ blobRet.outcome = "ok" =>
          /\ blobRet.start <= blobRet.end
          /\ blobRet.end <= LastClusterData.len

\* the last call got as far as the switch on compression: its cluster is
\* reads[Len(reads)] and the extent of that cluster lies in the file
LastCluster == reads[Len(reads)]

LastSwitched ==
    /\ blobRet.outcome # "none"
    /\ blobRet.err # "cluster index out of range"
    /\ ClusterPtr(blobZ, LastCluster) < blobZ.fileSize
    /\ ClusterSize(blobZ, LastCluster) >= 0
    /\ ClusterPtr(blobZ, LastCluster) + 1 + ClusterSize(blobZ, LastCluster) <= blobZ.fileSize

\* the low 4 bits of the info byte of the last call's cluster
LastTag == blobZ.stored[LastCluster + 1].info % 16

\* the decoders the last call ran on the payload
LastTried == Decompress(LastTag, CompressedData(blobZ, LastCluster)).tried

SupportedTags == {0, 1, 4, 5, 6}

\* the decompression failures GetBlob reports under each tag
DecodeErrors(tag) ==
    CASE tag = 4 -> { "failed to decompress zlib cluster" }
      [] tag = 5 -> { "failed to create XZ reader", "failed to decompress with zstd fallback",
                      "failed to decompress XZ cluster" }
      [] tag = 6 -> { "failed to create zstd reader", "failed to decompress zstd cluster" }
      [] OTHER -> {}

AllDecodeErrors == UNION { DecodeErrors(tag) : tag \in SupportedTags }

\* the payloads each tag's decoders decode
DecodedBy(tag) ==
    CASE tag \in {0, 1} -> { "none", "deflate", "xz", "xzcut", "zstd", "cut" }
      [] tag = 4 -> { "deflate" }
      [] tag = 5 -> { "xz", "zstd" }
      [] tag = 6 -> { "zstd" }
      [] OTHER -> {}

\* C12: under compression tag 5 a decompression failure is returned only after both
\* decoders were tried: when GetBlob fails to decompress a tag-5 cluster, XZ and
\* zstd have both been run on its payload.
C12_BothDecodersTried ==
    (LastSwitched /\ LastTag = 5 /\ blobRet.err \in DecodeErrors(5))
        => {"xz", "zstd"} \subseteq LastTried

\* C13: the decoder is chosen by the low 4 bits of the info byte alone: a tag outside
\* {0, 1, 4, 5, 6} fails with "unsupported compression type" and returns nothing, and
\* a tag inside it fails, if it fails to decompress, with an error of its own
\* decoder, and goes on to the blob table only with a payload its decoder decodes.
C13_TagSelectsDecoder ==
    LastSwitched =>
        /\ LastTag \notin SupportedTags <=> blobRet = BlobError("unsupported compression type")
        /\ blobRet.err \in AllDecodeErrors => blobRet.err \in DecodeErrors(LastTag)
        /\ (LastTag \in SupportedTags /\ blobRet.err \notin AllDecodeErrors)
              => CompressedData(blobZ, LastCluster).codec \in DecodedBy(LastTag)

C13_UnknownTagRejected ==
    /\ LastSwitched
    /\ blobZ.stored[LastCluster + 1].info = 23
    /\ blobRet = BlobError("unsupported compression type")


(***************************************************************************)
(* The readers GetArticleContent is run on: every directory of at most     *)
(* MaxContentEntries entries, each a content entry of blob 0 (html) or 1   *)
(* (png) of the                                                            *)
(* one cluster or a redirect to any index from 0 to MaxContentEntries      *)
(* (itself, another entry, or past the end), over a well-formed cluster    *)
(* of two blobs.                                                           *)
(***************************************************************************)
MaxContentEntries == 3

ContentCluster == StoredPlain(Data(16, <<12, 14, 16>>))

ContentEntries(k) ==
    { ContentEntry(NsA, <<97 + k>>, <<>>, b, 0, b) : b \in {0, 1} }
        \cup { RedirectEntry(NsA, <<97 + k>>, <<>>, U32(t)) : t \in 0..MaxContentEntries }

RECURSIVE ContentDirsOf(_)
\* the directories of n entries whose entry k is one of ContentEntries(k)
ContentDirsOf(n) ==
    IF n = 0 THEN { <<>> }
    ELSE { Append(dir, e) : dir \in ContentDirsOf(n - 1), e \in ContentEntries(n) }

ContentDirs == UNION { ContentDirsOf(n) : n \in 0..MaxContentEntries }

ContentReaders ==
    { Reader(dir, << ContentCluster >>, << "text/html", "image/png" >>, <<>>) :
        dir \in ContentDirs }

ContentInit ==
    /\ contZ \in ContentReaders
    /\ contEntry = NoEntry
    /\ contPc = "idle"
    /\ contTick = 0
    /\ contIdx = U32(0)
    /\ contRet = ContentRet("none", 0, 0, 0, 0, "")
    /\ IdleFind /\ IdleBlob /\ IdleArt /\ IdleBuild /\ IdleLayers
    /\ IdleFront

\* a call of GetArticleContent(idx) up to the loop: lines 401-404
ContentCall(idx) ==
    /\ contPc \in {"idle", "done"}
    /\ LET st == ContentEnter(contZ, idx)
       IN  /\ contEntry' = st.entry
           /\ contPc' = st.pc
           /\ contRet' = st.ret
    /\ contTick' = 1
    /\ contIdx' = idx
    /\ UNCHANGED <<contZ, notCont>>

\* one evaluation of `for entry.IsRedirect` and of what it leads to: a hop
\* (lines 407-412) or the read of the blob and the return (lines 414-424)
ContentChase ==
    /\ contPc = "chase"
    /\ LET st == ContentLoopBody(contZ, contEntry)
       IN  /\ contEntry' = st.entry
           /\ contPc' = st.pc
           /\ contRet' = st.ret
    /\ contTick' = 1 - contTick
    /\ UNCHANGED <<contZ, contIdx, notCont>>

ContentNext ==
    \/ \E idx \in 0..MaxContentEntries : ContentCall(U32(idx))
    \/ ContentChase

\* the call runs on its caller's goroutine: an enabled step of the loop is taken
SpecContent == ContentInit /\ [][ContentNext]_vars /\ WF_vars(ContentChase)

\* C3: GetArticleContent terminates on every archive: a call that has entered the
\* redirect loop returns, with an error when the chain of redirects is a cycle.
C3_ContentTerminates == (contPc = "chase") ~> (contPc = "done")

\* the non-redirect entry at the end of the redirect chain that starts at idx, if
\* the chain has an end inside the directory: [ok, idx]
RECURSIVE ChainEnd(_, _, _)
ChainEnd(z, idx, fuel) ==
    IF ~U32Less(idx, z.ArticleCount) THEN [ok |-> FALSE, idx |-> idx]
    ELSE IF ~EntryAt(z, idx).IsRedirect THEN [ok |-> TRUE, idx |-> idx]
    ELSE IF fuel = 0 THEN [ok |-> FALSE, idx |-> idx]
    ELSE ChainEnd(z, EntryAt(z, idx).RedirectIdx, fuel - 1)

ContentChainEnd == ChainEnd(contZ, contIdx, Len(contZ.dir))

ContentOnRedirect ==
    /\ contPc = "done"
    /\ U32Less(contIdx, contZ.ArticleCount)
    /\ EntryAt(contZ, contIdx).IsRedirect

\* C14: GetArticleContent on a redirect entry returns exactly the bytes and the
\* content type that GetArticleContent returns on the non-redirect entry at the end
\* of its redirect chain.
C14_RedirectReadsChainEnd ==
    (ContentOnRedirect /\ ContentChainEnd.ok)
        => contRet = GetArticleContent(contZ, ContentChainEnd.idx)

\* a call on a redirect to a redirect has returned the png at the end of the chain
C14_TwoHopsRead ==
    /\ ContentOnRedirect
    /\ U32Less(EntryAt(contZ, contIdx).RedirectIdx, contZ.ArticleCount)
    /\ EntryAt(contZ, EntryAt(contZ, contIdx).RedirectIdx).IsRedirect
    /\ contRet.err = "nil"
    /\ contRet.mimeType = "image/png"

(***************************************************************************)
(* The archives the article layer is run on: at most MaxArtEntries         *)
(* articles "a", "b", "c" of namespace 'A', entry k being blob k of the    *)
(* one cluster, with every assignment of the pages of ArtPages to them.    *)
(***************************************************************************)
MaxArtEntries == 3

ArtPages ==
    { PlainPage,
      Page(TRUE, FALSE, <<>>),            \* a refresh the regular expression does not match
      RefreshPage(<<97>>),                \* URL='a'
      RefreshPage(<<46, 47, 98>>),        \* URL='./b'
      RefreshPage(<<99, 35, 120>>),       \* URL='c#x'
      RefreshPage(<<122, 122>>) }         \* URL='zz'

\* n blobs of one byte each behind their offset table
ArtCluster(n) == StoredPlain(Data(5 * n, [k \in 1..n |-> 4 * n + k - 1]))

ArtDir(n) == [k \in 1..n |-> ContentEntry(NsA, <<96 + k>>, <<>>, 0, 0, k - 1)]

ArtReaders ==
    UNION { { Reader(ArtDir(n), << ArtCluster(n) >>, << "text/html" >>, << pages >>) :
                pages \in [1..n -> ArtPages] } : n \in 1..MaxArtEntries }

\* the deepest stack of frames the model follows
MaxFrames == 8

ArtInit ==
    /\ artZ \in ArtReaders
    /\ artStack = <<>>
    /\ artRet = NoArticle
    /\ IdleFind /\ IdleBlob /\ IdleCont /\ IdleBuild /\ IdleLayers
    /\ IdleFront

ArtTop == artStack[Len(artStack)]

ArtCallers == SubSeq(artStack, 1, Len(artStack) - 1)

\* the top frame returns ret: to the caller of GetArticleWithOptions, or into the
\* frame below, which returns the article it was handed (lines 308-310) or, on an
\* error, falls through to its own page (lines 312-327)
ArtReturnFrom(ret) ==
    IF Len(artStack) = 1
    THEN /\ artStack' = <<>>
         /\ artRet' = ret
    ELSE LET caller == artStack[Len(artStack) - 1]
             own    == ArticleRet("nil", caller.idx)
         IN  /\ artStack' = SubSeq(artStack, 1, Len(artStack) - 2)
                               \o << [caller EXCEPT !.pc = "resume",
                                                    !.ret = IF ret.err = "nil" THEN ret ELSE own] >>
             /\ artRet' = artRet

\* GetArticleWithOptions(idx, opts): lines 273-275
ArtCall(idx) ==
    /\ artStack = <<>>
    /\ artStack' = << Frame(idx, 0, "run", NoArticle) >>
    /\ artRet' = NoArticle
    /\ UNCHANGED <<artZ, notArt>>

\* the top frame follows a meta refresh: lines 279-308 and 331-340
ArtRecurse ==
    /\ artStack # <<>>
    /\ Len(artStack) < MaxFrames
    /\ ArtTop.pc = "run"
    /\ LET body == ArticleBody(artZ, ArtTop)
       IN  /\ body.do = "call"
           /\ artStack' = ArtCallers \o << [ArtTop EXCEPT !.pc = "await"],
                                          Frame(body.idx, DepthPassedOn(ArtTop.depth), "run",
                                                NoArticle) >>
    /\ UNCHANGED <<artZ, artRet, notArt>>

\* the top frame returns without following a refresh: lines 279-327
ArtReturn ==
    /\ artStack # <<>>
    /\ ArtTop.pc = "run"
    /\ LET body == ArticleBody(artZ, ArtTop)
       IN  /\ body.do = "return"
           /\ ArtReturnFrom(body.ret)
    /\ UNCHANGED <<artZ, notArt>>

\* the top frame is back from GetArticleByURL and returns: lines 308-327
ArtResume ==
    /\ artStack # <<>>
    /\ ArtTop.pc = "resume"
    /\ ArtReturnFrom(ArtTop.ret)
    /\ UNCHANGED <<artZ, notArt>>

ArtNext ==
    \/ \E idx \in 0..MaxArtEntries : ArtCall(U32(idx))
    \/ ArtRecurse
    \/ ArtReturn
    \/ ArtResume

SpecArticle == ArtInit /\ [][ArtNext]_vars

\* the frames that have followed a meta refresh and wait for its article
ArtHops == Cardinality({ k \in 1..Len(artStack) : artStack[k].pc = "await" })

\* C9: the following of meta refreshes is depth-bounded: no call of
\* GetArticleWithOptions is ever more than MaxRedirectDepth + 1 refreshes deep,
\* whatever cycle the refresh targets form.
C9_RefreshDepthBounded == ArtHops <= MaxRedirectDepth + 1

(***************************************************************************)
(* The archives BuildBlugeIndex is run on: at most MaxBuildEntries         *)
(* entries, all of them articles (namespace 'A' and 'C' in turn) but at    *)
(* most one, which is any of BuildEntries; at most one entry is            *)
(* unreadable.  The machine has up to MaxWorkers CPUs.                     *)
(***************************************************************************)
MaxBuildEntries == 6

MaxWorkers == 1

BuildArticle(k) ==
    ContentEntry(IF k % 2 = 1 THEN NsA ELSE NsC, <<96 + k>>, <<>>, 0, 0, 0)

BuildEntries(k) ==
    { BuildArticle(k),
      RedirectEntry(NsA, <<96 + k>>, <<>>, U32(0)),
      ContentEntry(NsC, <<96 + k, 46, 74, 83>>, <<>>, 0, 0, 0),        \* "a.JS"
      ContentEntry(NsA, <<47, 45, 47, 96 + k>>, <<>>, 0, 0, 0),        \* "/-/a"
      ContentEntry(NsI, <<96 + k>>, <<>>, 0, 0, 0) }

BuildDirs ==
    UNION { UNION { { [k \in 1..n |-> IF k = odd THEN e ELSE BuildArticle(k)] :
                        e \in BuildEntries(odd) } : odd \in 1..n } : n \in 1..MaxBuildEntries }
        \cup { <<>> }

BuildReaders ==
    UNION { { [ListReader(dir) EXCEPT !.unreadable = u] :
                u \in { {} } \cup { {U32(k)} : k \in 0..(Len(dir) - 1) } } : dir \in BuildDirs }

\* a worker between two entries
IdleWorker == [pc |-> "recv", idx |-> 0]

\* lines 532-558: the state when the goroutines have been started
BuildInit ==
    /\ buildZ \in BuildReaders
    /\ numWorkers \in 1..MaxWorkers
    /\ readI = 0
    /\ readerDone = FALSE
    /\ entryChan = <<>>
    /\ entryClosed = FALSE
    /\ workers = [w \in 1..numWorkers |-> IdleWorker]
    /\ docChan = <<>>
    /\ docClosed = FALSE
    /\ batch = EmptyBag(buildZ)
    /\ writerPc = "run"
    /\ index = EmptyBag(buildZ)
    /\ errChan = <<>>
    /\ articleCount = 0
    /\ mainPc = "waitReader"
    /\ buildErr = "none"
    /\ IdleFind /\ IdleBlob /\ IdleCont /\ IdleArt /\ IdleLayers
    /\ IdleFront
    /\ builds = 1

entryCount == U32Val(buildZ.ArticleCount)

\* does iteration i of the reader's loop reach the send of line 592?
ReaderSends(z, i) ==
    LET got == GetDirectoryEntry(z, U32(i))
    IN  got.err = "nil" /\ IsIndexed(got.entry)

\* the select of lines 656-659 and 669-672: a send that never blocks
TrySend(chan, err) == IF chan = <<>> THEN << err >> ELSE chan

\* an iteration of the reader's loop that ends in a `continue`: lines 565-590
ReaderSkip ==
    /\ ~readerDone
    /\ readI < entryCount
    /\ ~ReaderSends(buildZ, readI)
    /\ readI' = readI + 1
    /\ UNCHANGED <<buildZ, numWorkers, readerDone, entryChan, entryClosed, workers, docChan,
                   docClosed, batch, writerPc, index, errChan, articleCount, mainPc, buildErr,
                   notBuild>>

\* an iteration of the reader's loop that sends the entry: lines 565-596
ReaderSend ==
    /\ ~readerDone
    /\ readI < entryCount
    /\ ReaderSends(buildZ, readI)
    /\ Len(entryChan) < channelBuffer(numWorkers)
    /\ entryChan' = Append(entryChan, readI)
    /\ readI' = readI + 1
    /\ UNCHANGED <<buildZ, numWorkers, readerDone, entryClosed, workers, docChan,
                   docClosed, batch, writerPc, index, errChan, articleCount, mainPc, buildErr,
                   notBuild>>

\* the reader's loop ends: the deferred calls of lines 561-562
ReaderExit ==
    /\ ~readerDone
    /\ readI = entryCount
    /\ entryClosed' = TRUE
    /\ readerDone' = TRUE
    /\ UNCHANGED <<buildZ, numWorkers, readI, entryChan, workers, docChan,
                   docClosed, batch, writerPc, index, errChan, articleCount, mainPc, buildErr,
                   notBuild>>

\* worker w receives an entry and builds its document: lines 607-619
WorkerRecv(w) ==
    /\ workers[w].pc = "recv"
    /\ entryChan # <<>>
    /\ workers' = [workers EXCEPT ![w] = [pc |-> "send", idx |-> Head(entryChan)]]
    /\ entryChan' = Tail(entryChan)
    /\ UNCHANGED <<buildZ, numWorkers, readI, readerDone, entryClosed, docChan,
                   docClosed, batch, writerPc, index, errChan, articleCount, mainPc, buildErr,
                   notBuild>>

\* worker w sends its document: line 621
WorkerSend(w) ==
    /\ workers[w].pc = "send"
    /\ Len(docChan) < channelBuffer(numWorkers)
    /\ docChan' = Append(docChan, workers[w].idx)
    /\ workers' = [workers EXCEPT ![w] = IdleWorker]
    /\ UNCHANGED <<buildZ, numWorkers, readI, readerDone, entryChan, entryClosed,
                   docClosed, batch, writerPc, index, errChan, articleCount, mainPc, buildErr,
                   notBuild>>

\* worker w finds entryChan closed and drained: lines 605, 607
WorkerExit(w) ==
    /\ workers[w].pc = "recv"
    /\ entryChan = <<>>
    /\ entryClosed
    /\ workers' = [workers EXCEPT ![w] = [pc |-> "done", idx |-> 0]]
    /\ UNCHANGED <<buildZ, numWorkers, readI, readerDone, entryChan, entryClosed, docChan,
                   docClosed, batch, writerPc, index, errChan, articleCount, mainPc, buildErr,
                   notBuild>>

\* lines 627-630
CloseDocChan ==
    /\ ~docClosed
    /\ \A w \in DOMAIN workers : workers[w].pc = "done"
    /\ docClosed' = TRUE
    /\ UNCHANGED <<buildZ, numWorkers, readI, readerDone, entryChan, entryClosed, workers,
                   docChan, batch, writerPc, index, errChan, articleCount, mainPc, buildErr,
                   notBuild>>

\* the writer takes a document that does not fill the batch: lines 640-653
WriterInsert ==
    /\ writerPc = "run"
    /\ docChan # <<>>
    /\ batchCount(BagAdd(batch, Head(docChan))) < batchSize
    /\ batch' = BagAdd(batch, Head(docChan))
    /\ docChan' = Tail(docChan)
    /\ articleCount' = articleCount + 1
    /\ UNCHANGED <<buildZ, numWorkers, readI, readerDone, entryChan, entryClosed, workers,
                   docClosed, writerPc, index, errChan, mainPc, buildErr, notBuild>>

\* the writer takes the document that fills the batch and writes the batch;
\* ok is whether writer.Batch succeeds: lines 640-664
WriterFlush(ok) ==
    /\ writerPc = "run"
    /\ docChan # <<>>
    /\ batchCount(BagAdd(batch, Head(docChan))) >= batchSize
    /\ docChan' = Tail(docChan)
    /\ articleCount' = articleCount + 1
    /\ IF ok
       THEN /\ index' = BagSum(index, BagAdd(batch, Head(docChan)))
            /\ batch' = EmptyBag(buildZ)
            /\ UNCHANGED <<errChan, writerPc>>
       ELSE /\ errChan' = TrySend(errChan, "failed to write batch")
            /\ writerPc' = "done"
            /\ batch' = BagAdd(batch, Head(docChan))
            /\ UNCHANGED index
    /\ UNCHANGED <<buildZ, numWorkers, readI, readerDone, entryChan, entryClosed, workers,
                   docClosed, mainPc, buildErr, notBuild>>

\* the writer finds docChan closed and drained and writes what is left: lines 667-676
WriterFinish(ok) ==
    /\ writerPc = "run"
    /\ docChan = <<>>
    /\ docClosed
    /\ writerPc' = "done"
    /\ IF batchCount(batch) > 0
       THEN IF ok
            THEN /\ index' = BagSum(index, batch)
                 /\ batch' = EmptyBag(buildZ)
                 /\ UNCHANGED errChan
            ELSE /\ errChan' = TrySend(errChan, "failed to write final batch")
                 /\ UNCHANGED <<index, batch>>
       ELSE UNCHANGED <<index, batch, errChan>>
    /\ UNCHANGED <<buildZ, numWorkers, readI, readerDone, entryChan, entryClosed, workers,
                   docChan, docClosed, articleCount, mainPc, buildErr, notBuild>>

\* readerWg.Wait(): line 680
MainWaitReader ==
    /\ mainPc = "waitReader"
    /\ readerDone
    /\ mainPc' = "waitWriter"
    /\ UNCHANGED <<buildZ, numWorkers, readI, readerDone, entryChan, entryClosed, workers,
                   docChan, docClosed, batch, writerPc, index, errChan, articleCount, buildErr,
                   notBuild>>

\* writerWg.Wait() and the select on errChan: lines 683-694
MainWaitWriter ==
    /\ mainPc = "waitWriter"
    /\ writerPc = "done"
    /\ mainPc' = "returned"
    /\ buildErr' = IF errChan # <<>> THEN Head(errChan) ELSE "nil"
    /\ errChan' = <<>>
    /\ UNCHANGED <<buildZ, numWorkers, readI, readerDone, entryChan, entryClosed, workers,
                   docChan, docClosed, batch, writerPc, index, articleCount, notBuild>>

BuildNext ==
    \/ ReaderSkip
    \/ ReaderSend
    \/ ReaderExit
    \/ \E w \in DOMAIN workers : WorkerRecv(w)
    \/ \E w \in DOMAIN workers : WorkerSend(w)
    \/ \E w \in DOMAIN workers : WorkerExit(w)
    \/ CloseDocChan
    \/ WriterInsert
    \/ \E ok \in BOOLEAN : WriterFlush(ok)
    \/ \E ok \in BOOLEAN : WriterFinish(ok)
    \/ MainWaitReader
    \/ MainWaitWriter

SpecBuild == BuildInit /\ [][BuildNext]_vars

\* C4: the build terminates when a stage fails: as long as BuildBlugeIndex has not
\* returned, one of its goroutines can take a step, also after writer.Batch has
\* failed and whatever number of entries is left.
C4_NeverBlocked == mainPc = "returned" \/ ENABLED BuildNext

\* is entry k one the article classification lets through?
Classified(k) == IsIndexed(EntryAt(buildZ, U32(k)))

\* C5: when BuildBlugeIndex returns without error, the index holds exactly one
\* document for every classified entry and none for any other entry, and the count of
\* documents is the count of classified entries.
C5_OneDocPerClassified ==
    (mainPc = "returned" /\ buildErr = "nil") =>
        /\ \A k \in DOMAIN index : index[k] = IF Classified(k) THEN 1 ELSE 0
        /\ articleCount = Cardinality({ k \in DOMAIN index : Classified(k) })

\* C6: a failure to read a directory entry in the reader stage is reported: when an
\* entry cannot be read, BuildBlugeIndex does not return success.
C6_ReadFailureReported ==
    (mainPc = "returned" /\ buildZ.unreadable # {}) => buildErr # "nil"

(***************************************************************************)
(* GetDirectoryEntry and GetBlob called with any index, in range or not.   *)
(* The readers: the articles "a", "b" of ArtDir over every sequence of at  *)
(* most MaxRangeClusters clusters of RangeClusters.                        *)
(***************************************************************************)
MaxRangeEntries == 2

MaxRangeClusters == 2

MaxRangeBlob == 3

RangeClusters ==
    { StoredPlain(OneBlob),
      StoredPlain(Data(16, <<12, 14, 16>>)),
      Stored(6, "zstd", Data(5, <<0>>), TwoBlobs),
      Stored(5, "xzcut", Data(6, <<0>>), OneBlob),      \* does not decompress
      StoredPlain(Data(3, <<>>)) }                      \* too short for an offset

RangeReaders ==
    UNION { { Reader(ArtDir(n), stored, << "text/html" >>, <<>>) :
                stored \in UNION { [1..k -> RangeClusters] : k \in 0..MaxRangeClusters } } :
            n \in 0..MaxRangeEntries }

RangeIndices == { U32(i) : i \in 0..(MaxRangeEntries + 1) } \cup { MaxU32 }

RangeCall(op, idx, cluster, blob) == [op |-> op, idx |-> idx, cluster |-> cluster, blob |-> blob]

RangeRet(outcome, err, read) == [outcome |-> outcome, err |-> err, read |-> read]

\* does the call get to its Seek?  GetDirectoryEntry returns at line 189 and GetBlob
\* at line 282 before the file is touched (lines 199 and 298)
EntryReads(z, idx) == U32Less(idx, z.ArticleCount)

BlobReads(z, clusterNum) == clusterNum < z.ClusterCount

RangeInit ==
    /\ rdZ \in RangeReaders
    /\ rdCall = RangeCall("none", U32(0), 0, 0)
    /\ rdRet = RangeRet("none", "nil", FALSE)
    /\ IdleFind /\ IdleBlob /\ IdleCont /\ IdleArt /\ IdleBuild
    /\ IdleEnt /\ IdleRnd /\ IdleImg /\ IdleSearch
    /\ IdleFront

\* a call of GetDirectoryEntry(idx)
RangeEntryCall(idx) ==
    /\ rdCall' = RangeCall("entry", idx, 0, 0)
    /\ LET got == GetDirectoryEntry(rdZ, idx)
       IN  rdRet' = RangeRet(IF got.err = "nil" THEN "ok" ELSE "error", got.err,
                            EntryReads(rdZ, idx))
    /\ UNCHANGED <<rdZ, notRange>>

\* a call of GetBlob(clusterNum, blobNum)
RangeBlobCall(clusterNum, blobNum) ==
    /\ rdCall' = RangeCall("blob", U32(0), clusterNum, blobNum)
    /\ LET got == GetBlob(rdZ, clusterNum, blobNum)
       IN  rdRet' = RangeRet(got.outcome, got.err, BlobReads(rdZ, clusterNum))
    /\ UNCHANGED <<rdZ, notRange>>

RangeNext ==
    \/ \E idx \in RangeIndices : RangeEntryCall(idx)
    \/ \E c \in 0..MaxRangeClusters, b \in 0..MaxRangeBlob : RangeBlobCall(c, b)

SpecRange == RangeInit /\ [][RangeNext]_vars

\* the clusters of the reader whose payload decompresses to an offset table, and the
\* number n of blobs that table announces (its first offset / 4)
RangeDecoded(z, c) ==
    LET st == z.stored[c + 1]
    IN  IF st.codec = "none" THEN st.raw ELSE st.plain

RangeHasTable(z, c) ==
    /\ c < z.ClusterCount
    /\ z.stored[c + 1].codec \in {"none", "zstd"}
    /\ RangeDecoded(z, c).len >= 4

RangeBlobs(z, c) == RangeDecoded(z, c).words[1] \div 4

LE16(bytes, pos) == bytes[pos] + 256 * bytes[pos + 1]

LE32(bytes, pos) == [hi |-> LE16(bytes, pos + 2), lo |-> LE16(bytes, pos)]

\* the null-terminated string from pos on: lines 234-245 and 248-259
RECURSIVE ReadCString(_, _, _)
ReadCString(bytes, pos, acc) ==
    IF pos > Len(bytes) THEN [err |-> "EOF", str |-> acc, next |-> pos]
    ELSE IF bytes[pos] = 0 THEN [err |-> "nil", str |-> acc, next |-> pos + 1]
    ELSE ReadCString(bytes, pos + 1, Append(acc, bytes[pos]))

\* the size of MimeType, ParamLen, Namespace and Revision, and of what follows them
\* in a redirect and in a content entry
PrefixSize == 8

RedirectSize == 4

ContentSize == 8

\* lines 261-264
TitleOr(title, url) == IF title = <<>> THEN url ELSE title

\* lines 203-266: [err, entry, ParamLen]
ReadEntry(bytes) ==
    LET failed == [err |-> "EOF", entry |-> NoEntry, ParamLen |-> 0]
    IN  IF Len(bytes) < PrefixSize THEN failed
        ELSE
          LET mime     == LE16(bytes, 1)
              paramLen == bytes[3]
              ns       == bytes[4]
              redirect == mime = RedirectMime
              fixed    == PrefixSize + (IF redirect THEN RedirectSize ELSE ContentSize)
          IN  IF Len(bytes) < fixed THEN failed
              ELSE
                LET url   == ReadCString(bytes, fixed + 1, <<>>)
                    title == ReadCString(bytes, url.next, <<>>)
                IN  IF url.err # "nil" \/ title.err # "nil" THEN failed
                    ELSE [err |-> "nil", ParamLen |-> paramLen,
                          entry |-> IF redirect
                                    THEN RedirectEntry(ns, url.str, TitleOr(title.str, url.str),
                                                       LE32(bytes, 9))
                                    ELSE ContentEntry(ns, url.str, TitleOr(title.str, url.str),
                                                      mime,
                                                      U32Val(LE32(bytes, 9)),
                                                      U32Val(LE32(bytes, 13)))]

(***************************************************************************)
(* The entries GetDirectoryEntry is run on: a content entry or a redirect  *)
(* with at most MaxParamLen bytes of parameter data between the fixed      *)
(* part and the url, and every head of one such entry.                     *)
(***************************************************************************)
MaxParamLen == 2

Bytes16(n) == << n % 256, n \div 256 >>

Bytes32(n) == << n % 256, n \div 256, 0, 0 >>

\* the bytes of an entry whose parameter data follows the fixed part
EntryBytes(e, params) ==
    Bytes16(e.MimeType) \o << Len(params), e.Namespace >> \o Bytes32(0)
        \o (IF e.IsRedirect THEN Bytes32(U32Val(e.RedirectIdx))
            ELSE Bytes32(e.ClusterNum) \o Bytes32(e.BlobNum))
        \o params \o e.URL \o <<0>> \o e.Title \o <<0>>

EntParams == UNION { [1..n -> {0, 120}] : n \in 0..MaxParamLen }

EntEntries ==
    { ContentEntry(NsA, url, title, 1, 2, 3) : url \in { <<97>>, <<97, 98>> },
                                                title \in { <<>>, <<84>> } }
        \cup { RedirectEntry(NsC, url, title, U32(5)) : url \in { <<97>>, <<97, 98>> },
                                                        title \in { <<>>, <<84>> } }

EntHeads ==
    LET whole == EntryBytes(ContentEntry(NsA, <<97>>, <<84>>, 1, 2, 3), <<>>)
    IN  { SubSeq(whole, 1, n) : n \in 0..(Len(whole) - 1) }

EntFixtures == { EntryBytes(e, params) : e \in EntEntries, params \in EntParams } \cup EntHeads

EntInit ==
    /\ entBytes \in EntFixtures
    /\ entRet = [err |-> "none", entry |-> NoEntry, ParamLen |-> 0]
    /\ IdleFind /\ IdleBlob /\ IdleCont /\ IdleArt /\ IdleBuild
    /\ IdleRange /\ IdleRnd /\ IdleImg /\ IdleSearch
    /\ IdleFront

\* GetDirectoryEntry from its Seek on: lines 199-266
EntRead ==
    /\ entRet.err = "none"
    /\ entRet' = ReadEntry(entBytes)
    /\ UNCHANGED <<entBytes, notEnt>>

EntNext == EntRead

SpecEntry == EntInit /\ [][EntNext]_vars

\* C15: GetDirectoryEntry honors ParamLen: of an entry whose ParamLen is greater than
\* zero the ParamLen bytes after the fixed part are skipped, so that the url
\* returned is the entry's and the title the entry's or, where that is empty, the url.
C15_ParamLenHonored ==
    \A e \in EntEntries, params \in EntParams :
        (entBytes = EntryBytes(e, params) /\ entRet.err # "none")
            => /\ entRet.err = "nil"
               /\ entRet.entry.URL = e.URL
               /\ entRet.entry.Title = TitleOr(e.Title, e.URL)

(***************************************************************************)
(* GetRandomArticle (download.go:540-601).  Of the content of an entry it  *)
(* looks at the length and at where the first '<' is: the page of an entry *)
(* carries lt, the offset of its first '<' (-1: none).                     *)
(***************************************************************************)
maxAttempts == 500

\* len(contentStr) < 50, line 589
MinContentLen == 50

\* contentStr[:min(500, len(contentStr))], line 593
IndicatorWindow == 500

RndPage(refresh, matched, url, lt) ==
    [refresh |-> refresh, matched |-> matched, url |-> url, lt |-> lt]

\* strings.Contains(mimeType, word) on the content types of the archives modeled
MimeContains(mimeType, word) ==
    word \in (CASE mimeType = "text/html" -> {"html", "text"}
                [] mimeType = "text/plain" -> {"text"}
                [] OTHER -> {})

Min(a, b) == IF a < b THEN a ELSE b

\* lines 556-573
IsRandomCandidate(entry) ==
    LET url == ToLower(entry.URL)
    IN  /\ ~(entry.Namespace # NsA /\ entry.Namespace # NsC)
        /\ ~entry.IsRedirect
        /\ ~(\/ \E suffix \in ResourceSuffixes : HasSuffix(url, suffix)
             \/ Contains(url, <<47, 45, 47>>))

\* one turn of the loop with idx drawn: does it reach the return of line 597?
RandomAccepts(z, idx) ==
    LET got     == GetDirectoryEntry(z, idx)
        content == GetArticleContent(z, idx)
        size    == content.end - content.start
        lt      == PageOf(z, content).lt
    IN  /\ got.err = "nil"
        /\ IsRandomCandidate(got.entry)
        /\ content.err = "nil"
        /\ ~(/\ content.mimeType # ""
             /\ ~MimeContains(content.mimeType, "html")
             /\ ~MimeContains(content.mimeType, "text"))
        /\ ~(size < MinContentLen)
        /\ lt >= 0 /\ lt < Min(IndicatorWindow, size)

\* lines 308-327: the article the call of line 308 returned or, on an error, the frame's own
ArticleOr(sub, idx) == IF sub.err = "nil" THEN sub ELSE ArticleRet("nil", idx)

\* GetArticle(idx) run to its return; only for archives whose meta refreshes end
RECURSIVE GetArticleRun(_, _)
GetArticleRun(z, f) ==
    IF ArticleBody(z, f).do = "return" THEN ArticleBody(z, f).ret
    ELSE ArticleOr(GetArticleRun(z, Frame(ArticleBody(z, f).idx, DepthPassedOn(f.depth), "run",
                                          NoArticle)),
                   f.idx)

GetArticle(z, idx) == GetArticleRun(z, Frame(idx, 0, "run", NoArticle))

RandomRet(err, Index, picked) == [err |-> err, Index |-> Index, picked |-> picked]

(***************************************************************************)
(* The archives GetRandomArticle is run on: at most two entries "a" and    *)
(* "b", entry k being blob k of the one cluster; a lone entry is of any    *)
(* kind of RndKinds, of two the first is of RndFirstKinds and the second   *)
(* of RndSecondKinds.  The content types are "text/html" and "image/png";  *)
(* MimeType 2 is beyond the list.                                          *)
(***************************************************************************)
RndKind(ns, ext, mime, size, page) ==
    [ns |-> ns, ext |-> ext, mime |-> mime, size |-> size, page |-> page, redirect |-> FALSE]

RndPlain(lt) == RndPage(FALSE, FALSE, <<>>, lt)

RndSecondKinds ==
    { RndKind(NsA, <<>>, 0, 60, RndPlain(0)),
      RndKind(NsA, <<>>, 2, 60, RndPlain(0)),            \* no content type
      RndKind(NsA, <<>>, 0, 49, RndPlain(0)) }           \* 49 bytes

RndFirstKinds ==
    { RndKind(NsA, <<>>, 0, 60, RndPlain(0)),
      RndKind(NsA, <<>>, 0, 49, RndPlain(0)),
      RndKind(NsA, <<>>, 0, 60, RndPage(TRUE, TRUE, <<98>>, 0)) }   \* a refresh to "b"

RndKinds ==
    RndSecondKinds \cup RndFirstKinds \cup
    { RndKind(NsA, <<>>, 1, 60, RndPlain(0)),            \* image/png
      RndKind(NsC, <<>>, 0, 600, RndPlain(500)),         \* the first '<' is byte 501
      RndKind(NsC, <<>>, 0, 600, RndPlain(499)),         \* the first '<' is byte 500
      RndKind(NsA, <<>>, 0, 60, RndPlain(-1)),           \* no '<'
      RndKind(NsA, <<46, 74, 83>>, 0, 60, RndPlain(0)),  \* "a.JS"
      RndKind(NsI, <<>>, 0, 60, RndPlain(0)),
      [RndKind(NsA, <<>>, 0, 0, RndPlain(-1)) EXCEPT !.redirect = TRUE] }

RndKindSeqs ==
    { <<>> } \cup { << c >> : c \in RndKinds }
        \cup { << c, d >> : c \in RndFirstKinds, d \in RndSecondKinds }

RndEntry(kinds, k) ==
    IF kinds[k].redirect THEN RedirectEntry(kinds[k].ns, <<96 + k>>, <<>>, U32(Len(kinds) - 1))
    ELSE ContentEntry(kinds[k].ns, <<96 + k>> \o kinds[k].ext, <<>>, kinds[k].mime, 0, k - 1)

RECURSIVE RndSizes(_, _)
RndSizes(kinds, n) == IF n = 0 THEN 0 ELSE RndSizes(kinds, n - 1) + kinds[n].size

\* the blobs of the entries behind their offset table
RndCluster(kinds) ==
    LET n == Len(kinds)
    IN  StoredPlain(Data(4 * n + RndSizes(kinds, n),
                         [k \in 1..n |-> 4 * n + RndSizes(kinds, k - 1)]))

RndReader(kinds) ==
    Reader([k \in 1..Len(kinds) |-> RndEntry(kinds, k)],
           IF kinds = <<>> THEN <<>> ELSE << RndCluster(kinds) >>,
           << "text/html", "image/png" >>,
           IF kinds = <<>> THEN <<>> ELSE << [k \in 1..Len(kinds) |-> kinds[k].page] >>)

RndReaders ==
    LET sorted == { RndReader(kinds) : kinds \in RndKindSeqs }
    IN  { z \in sorted : IsSortedDir(z.dir) }
            \cup { [z EXCEPT !.unreadable = {U32(0)}] :
                     z \in { y \in sorted : IsSortedDir(y.dir) /\ Len(y.dir) = 2
                                              /\ y.dir[2].MimeType = 2 } }

RndInit ==
    /\ rndZ \in RndReaders
    /\ rndIndexed \in BOOLEAN
    /\ rndI = 0
    /\ rndPc = "idle"
    /\ rndRet = RandomRet("none", U32(0), U32(0))
    /\ IdleFind /\ IdleBlob /\ IdleCont /\ IdleArt /\ IdleBuild
    /\ IdleRange /\ IdleEnt /\ IdleImg /\ IdleSearch
    /\ IdleFront

\* lines 541-547
RndCall ==
    /\ rndPc = "idle"
    /\ rndI' = 0
    /\ IF rndZ.ArticleCount = U32(0)
       THEN /\ rndPc' = "done"
            /\ rndRet' = RandomRet("no articles available", U32(0), U32(0))
       ELSE /\ rndPc' = "loop"
            /\ rndRet' = RandomRet("none", U32(0), U32(0))
    /\ UNCHANGED <<rndZ, rndIndexed, notRnd>>

\* a turn of the loop that ends in a `continue`: lines 548-595
RndReject(idx) ==
    /\ rndPc = "loop"
    /\ rndI < maxAttempts
    /\ U32Less(idx, rndZ.ArticleCount)
    /\ ~RandomAccepts(rndZ, idx)
    /\ rndI' = rndI + 1
    /\ UNCHANGED <<rndZ, rndIndexed, rndPc, rndRet, notRnd>>

\* a turn of the loop that returns the article: lines 548-597
RndAccept(idx) ==
    /\ rndPc = "loop"
    /\ rndI < maxAttempts
    /\ U32Less(idx, rndZ.ArticleCount)
    /\ RandomAccepts(rndZ, idx)
    /\ rndPc' = "done"
    /\ LET article == GetArticle(rndZ, idx)
       IN  rndRet' = RandomRet(article.err, article.Index, idx)
    /\ UNCHANGED <<rndZ, rndIndexed, rndI, notRnd>>

\* the loop ends: lines 548 and 600
RndExhaust ==
    /\ rndPc = "loop"
    /\ ~(rndI < maxAttempts)
    /\ rndPc' = "done"
    /\ rndRet' = RandomRet("could not find a valid random article", U32(0), U32(0))
    /\ UNCHANGED <<rndZ, rndIndexed, rndI, notRnd>>

\* rand.Int63n(int64(articleCount)), line 549
RndDraws == { U32(k) : k \in 0..1 }

RndNext ==
    \/ RndCall
    \/ \E idx \in RndDraws : RndReject(idx)
    \/ \E idx \in RndDraws : RndAccept(idx)
    \/ RndExhaust

SpecRandom == RndInit /\ [][RndNext]_vars

\* C16: with a title index loaded GetRandomArticle takes the article from the index:
\* it enters the sampling loop only when no index is loaded.
C16_IndexPreferred == rndIndexed => rndPc # "loop"

\* the four tests on a candidate
PassedClassification(z, idx) == IsIndexed(EntryAt(z, idx))

PassedContentType(z, idx) ==
    \/ MimeContains(MimeTypeOf(z, EntryAt(z, idx)), "html")
    \/ MimeContains(MimeTypeOf(z, EntryAt(z, idx)), "text")

PassedLength(z, idx) ==
    LET content == GetArticleContent(z, idx)
    IN  content.err = "nil" /\ content.end - content.start >= MinContentLen

PassedIndicator(z, idx) ==
    LET content == GetArticleContent(z, idx)
        lt      == PageOf(z, content).lt
    IN  content.err = "nil" /\ lt >= 0 /\ lt < IndicatorWindow

\* C17: the sampling loop tries at most 500 candidates, returns "could not find a
\* valid random article" when all of them are rejected, and returns an article only
\* of a candidate that passed the four tests: classification, a content type with
\* "html" or "text", at least 50 bytes of content, a '<' in the first 500 bytes.
C17_SamplingSound ==
    /\ rndI <= maxAttempts
    /\ (rndPc = "done" /\ rndI = maxAttempts)
          => rndRet = RandomRet("could not find a valid random article", U32(0), U32(0))
    /\ (rndPc = "done" /\ rndRet.err = "nil")
          => /\ PassedClassification(rndZ, rndRet.picked)
             /\ PassedContentType(rndZ, rndRet.picked)
             /\ PassedLength(rndZ, rndRet.picked)
             /\ PassedIndicator(rndZ, rndRet.picked)

(***************************************************************************)
(* GetImage and FindImageID (download.go:343-401).                         *)
(***************************************************************************)
\* the value of a hexadecimal digit, -1 for any other byte
HexVal(b) ==
    IF b >= 48 /\ b <= 57 THEN b - 48
    ELSE IF b >= 97 /\ b <= 102 THEN b - 87
    ELSE IF b >= 65 /\ b <= 70 THEN b - 55
    ELSE -1

\* url.QueryUnescape: "%XX" is the byte XX, '+' a space; [ok, str]
RECURSIVE Unescape(_, _, _)
Unescape(s, pos, acc) ==
    IF pos > Len(s) THEN [ok |-> TRUE, str |-> acc]
    ELSE IF s[pos] = 37
    THEN IF pos + 2 > Len(s) \/ HexVal(s[pos + 1]) < 0 \/ HexVal(s[pos + 2]) < 0
         THEN [ok |-> FALSE, str |-> <<>>]
         ELSE Unescape(s, pos + 3, Append(acc, 16 * HexVal(s[pos + 1]) + HexVal(s[pos + 2])))
    ELSE Unescape(s, pos + 1, Append(acc, IF s[pos] = 43 THEN 32 ELSE s[pos]))

\* decodedPath, _ := url.QueryUnescape(path), line 379
QueryUnescape(path) == Unescape(path, 1, <<>>).str

ImageRet(op, err, idx) == [op |-> op, err |-> err, idx |-> idx]

\* the three lookups of lines 347-357 and of lines 387-398
FindImageTry(z, tryPath) ==
    LET i == FindArticleByURL(z, NsI, tryPath)
        d == FindArticleByURL(z, NsDash, tryPath)
        c == FindArticleByURL(z, NsC, tryPath)
    IN  IF i.err = "nil" THEN i
        ELSE IF d.err = "nil" THEN d
        ELSE c

\* lines 344-365
GetImage(z, path) ==
    LET found   == FindImageTry(z, path)
        content == GetArticleContent(z, found.idx)
    IN  IF found.err # "nil" THEN ImageRet("GetImage", "image not found", U32(0))
        ELSE ImageRet("GetImage", content.err, found.idx)

\* the loop of lines 382-399 over the paths left to try
RECURSIVE FindImageLoop(_, _)
FindImageLoop(z, tryPaths) ==
    IF tryPaths = <<>> THEN ImageRet("FindImageID", "image not found", U32(0))
    ELSE IF Head(tryPaths) = <<>> THEN FindImageLoop(z, Tail(tryPaths))
    ELSE IF FindImageTry(z, Head(tryPaths)).err = "nil"
    THEN ImageRet("FindImageID", "nil", FindImageTry(z, Head(tryPaths)).idx)
    ELSE FindImageLoop(z, Tail(tryPaths))

\* lines 377-401
FindImageID(z, path) == FindImageLoop(z, << QueryUnescape(path), path >>)

(***************************************************************************)
(* The archives the image calls are run on: the sorted directories of the  *)
(* entries "a" and "%61" of the namespaces '-', 'C' and 'I', entry k being *)
(* blob k of the one cluster; the paths are the strings of at most         *)
(* MaxPathLen of the bytes '%', '6', '1', 'a' and '+'.                     *)
(***************************************************************************)
MaxPathLen == 3

ImgKeys ==
    { ContentEntry(ns, url, <<>>, 0, 0, 0) :
        ns \in {NsDash, NsC, NsI}, url \in { <<97>>, <<37, 54, 49>> } }

MaxImgEntries == 3

ImgReaders ==
    { Reader([k \in 1..Len(dir) |-> [dir[k] EXCEPT !.BlobNum = k - 1]],
             << ArtCluster(Len(dir)) >>, << "image/png" >>, <<>>) :
        dir \in SortedDirs(ImgKeys, MaxImgEntries) \ { <<>> } }

ImgPaths == UNION { [1..n -> {37, 54, 49, 97, 43}] : n \in 0..MaxPathLen }

ImgInit ==
    /\ imgZ \in ImgReaders
    /\ imgPath \in ImgPaths
    /\ imgRet = ImageRet("none", "none", U32(0))
    /\ IdleFind /\ IdleBlob /\ IdleCont /\ IdleArt /\ IdleBuild
    /\ IdleRange /\ IdleEnt /\ IdleRnd /\ IdleSearch
    /\ IdleFront

ImageGet ==
    /\ imgRet.op = "none"
    /\ imgRet' = GetImage(imgZ, imgPath)
    /\ UNCHANGED <<imgZ, imgPath, notImg>>

ImageFind ==
    /\ imgRet.op = "none"
    /\ imgRet' = FindImageID(imgZ, imgPath)
    /\ UNCHANGED <<imgZ, imgPath, notImg>>

ImgNext == ImageGet \/ ImageFind

SpecImage == ImgInit /\ [][ImgNext]_vars

\* C18: GetImage(path) returns the first match of path in the namespaces 'I', '-'
\* and 'C'; when all three miss, it returns the first match of the percent-decoded
\* path in the three namespaces, and fails only when that misses as well.
C18_DecodedRetry ==
    imgRet.op = "GetImage" =>
        LET raw     == FindImageTry(imgZ, imgPath)
            decoded == FindImageTry(imgZ, QueryUnescape(imgPath))
        IN  IF raw.err = "nil" THEN imgRet = ImageRet("GetImage", "nil", raw.idx)
            ELSE IF decoded.err = "nil" THEN imgRet = ImageRet("GetImage", "nil", decoded.idx)
            ELSE imgRet.err = "image not found"

(***************************************************************************)
(* BuildBlugeIndex called again and again on the same indexPath            *)
(* (zim.go:508-531): `index` is what the directory at indexPath holds,     *)
(* and stays from one call to the next.                                    *)
(***************************************************************************)
MaxRebuildEntries == 2

MaxBuilds == 2

RebuildReaders == { z \in BuildReaders : Len(z.dir) <= MaxRebuildEntries }

\* an index kept from one call to the next
KeepIndex(z, old) == old

\* os.Stat and os.RemoveAll, lines 516-522: what is left at indexPath
RemoveIndex(z, old) == EmptyBag(z)

RebuildInit ==
    /\ buildZ \in RebuildReaders
    /\ numWorkers \in 1..MaxWorkers
    /\ readI = 0
    /\ readerDone = FALSE
    /\ entryChan = <<>>
    /\ entryClosed = FALSE
    /\ workers = <<>>
    /\ docChan = <<>>
    /\ docClosed = FALSE
    /\ batch = EmptyBag(buildZ)
    /\ writerPc = "idle"
    /\ index = EmptyBag(buildZ)
    /\ errChan = <<>>
    /\ articleCount = 0
    /\ mainPc = "idle"
    /\ buildErr = "none"
    /\ builds = 0
    /\ IdleFind /\ IdleBlob /\ IdleCont /\ IdleArt /\ IdleLayers
    /\ IdleFront

\* how the set-up of lines 510-531 ends
StartOutcomes == {"started", "failed to remove existing index", "failed to create index"}

\* a call of BuildBlugeIndex up to the start of the goroutines: lines 508-558
BuildStart(outcome) ==
    /\ mainPc \in {"idle", "returned"}
    /\ builds < MaxBuilds
    /\ builds' = builds + 1
    /\ IF outcome = "failed to remove existing index"
       THEN /\ builds >= 1
            /\ mainPc' = "returned"
            /\ buildErr' = outcome
            /\ UNCHANGED <<index, readI, readerDone, entryChan, entryClosed, workers, docChan,
                           docClosed, batch, writerPc, errChan, articleCount>>
       ELSE IF outcome = "failed to create index"
       THEN /\ index' = RemoveIndex(buildZ, index)
            /\ mainPc' = "returned"
            /\ buildErr' = outcome
            /\ UNCHANGED <<readI, readerDone, entryChan, entryClosed, workers, docChan,
                           docClosed, batch, writerPc, errChan, articleCount>>
       ELSE /\ index' = RemoveIndex(buildZ, index)
            /\ readI' = 0
            /\ readerDone' = FALSE
            /\ entryChan' = <<>>
            /\ entryClosed' = FALSE
            /\ workers' = [w \in 1..numWorkers |-> IdleWorker]
            /\ docChan' = <<>>
            /\ docClosed' = FALSE
            /\ batch' = EmptyBag(buildZ)
            /\ writerPc' = "run"
            /\ errChan' = <<>>
            /\ articleCount' = 0
            /\ mainPc' = "waitReader"
            /\ buildErr' = "none"
    /\ UNCHANGED <<buildZ, numWorkers, notRebuild>>

RebuildNext ==
    \/ \E outcome \in StartOutcomes : BuildStart(outcome)
    \/ BuildNext

SpecRebuild == RebuildInit /\ [][RebuildNext]_vars

\* the documents one call leaves in an index that was empty: one for every entry the
\* reader stage sends
OneBuild(z) == [k \in DOMAIN EmptyBag(z) |-> IF ReaderSends(z, k) THEN 1 ELSE 0]

\* C19: the build is idempotent: whatever the calls made before on the same
\* indexPath, a call that returns without error leaves the documents of one build,
\* neither kept nor duplicated from an earlier one, and so the same document count.
C19_RebuildIdempotent ==
    (mainPc = "returned" /\ buildErr = "nil")
        => /\ index = OneBuild(buildZ)
           /\ batchCount(index) = batchCount(OneBuild(buildZ))

C19_BuiltTwice ==
    /\ builds = 2
    /\ mainPc = "returned"
    /\ buildErr = "nil"
    /\ batchCount(index) = 2

(***************************************************************************)
(* BlugeIndex.Search up to the boolean query it hands to the index         *)
(* (zim.go:724-771).  A query is the sequence of its code points; the      *)
(* string the code holds is their UTF-8 encoding, and len() counts its     *)
(* bytes.                                                                  *)
(***************************************************************************)
\* the bytes of the UTF-8 encoding of one code point
Utf8Size(r) == IF r < 128 THEN 1 ELSE IF r < 2048 THEN 2 ELSE IF r < 65536 THEN 3 ELSE 4

\* len(query), lines 739 and 757
RECURSIVE ByteLen(_)
ByteLen(query) == IF query = <<>> THEN 0 ELSE Utf8Size(Head(query)) + ByteLen(Tail(query))

\* unicode.IsSpace on the code points below 256
IsSpace(r) == r \in {9, 10, 11, 12, 13, 32, 133, 160}

\* strings.TrimSpace, line 725
RECURSIVE TrimSpace(_)
TrimSpace(query) ==
    IF query = <<>> THEN query
    ELSE IF IsSpace(Head(query)) THEN TrimSpace(Tail(query))
    ELSE IF IsSpace(query[Len(query)]) THEN TrimSpace(SubSeq(query, 1, Len(query) - 1))
    ELSE query

\* unicode.ToLower on the code points below 256
LowerRune(r) ==
    IF (r >= 65 /\ r <= 90) \/ (r >= 192 /\ r <= 222 /\ r # 215) THEN r + 32 ELSE r

\* strings.ToLower, line 735
QueryLower(query) == [k \in 1..Len(query) |-> LowerRune(query[k])]

Clause(kind, field, text, boost) == [kind |-> kind, field |-> field, text |-> text, boost |-> boost]

\* the clauses of the boolean query, in the order they are appended: lines 735-765
SearchClauses(query) ==
    LET queryLower == QueryLower(query)
    IN  << Clause("term", "title_exact", queryLower, 100),
           Clause("prefix", "title_exact", queryLower, 50),
           Clause("match", "title", query, 10) >>
        \o (IF ByteLen(query) > 3
            THEN << Clause("fuzzy", "title_exact", queryLower, 5) >>
            ELSE <<>>)
        \o << Clause("wildcard", "title_exact", <<42>> \o queryLower \o <<42>>, 3) >>

SearchRet(called, err, clauses) == [called |-> called, err |-> err, clauses |-> clauses]

\* lines 724-780; ok is whether b.reader.Search succeeds
Search(query, ok) ==
    IF TrimSpace(query) = <<>> THEN SearchRet(TRUE, "nil", <<>>)
    ELSE SearchRet(TRUE, IF ok THEN "nil" ELSE "search failed", SearchClauses(TrimSpace(query)))

(***************************************************************************)
(* The queries Search is run on: at most MaxQueryLen of the code points    *)
(* ' ', 'a', 'A' and U+00E4.                                               *)
(***************************************************************************)
MaxQueryLen == 5

SearchQueries == UNION { [1..n -> {32, 97, 65, 228}] : n \in 0..MaxQueryLen }

SearchInit ==
    /\ searchQuery \in SearchQueries
    /\ searchRet = SearchRet(FALSE, "nil", <<>>)
    /\ IdleFind /\ IdleBlob /\ IdleCont /\ IdleArt /\ IdleBuild
    /\ IdleRange /\ IdleEnt /\ IdleRnd /\ IdleImg
    /\ IdleFront

SearchCall(ok) ==
    /\ ~searchRet.called
    /\ searchRet' = Search(searchQuery, ok)
    /\ UNCHANGED <<searchQuery, notSearch>>

SearchNext == \E ok \in BOOLEAN : SearchCall(ok)

SpecSearch == SearchInit /\ [][SearchNext]_vars

ClauseKinds(clauses) == { clauses[k].kind : k \in DOMAIN clauses }

\* C20: of a query that is not empty when trimmed, Search builds the fuzzy clause if
\* and only if the trimmed query is longer than 3 characters, and it builds the
\* term, prefix, match and wildcard clauses whatever the length.
C20_FuzzyOnlyWhenLong ==
    (searchRet.called /\ TrimSpace(searchQuery) # <<>>)
        => /\ "fuzzy" \in ClauseKinds(searchRet.clauses) <=> Len(TrimSpace(searchQuery)) > 3
           /\ {"term", "prefix", "match", "wildcard"} \subseteq ClauseKinds(searchRet.clauses)

(***************************************************************************)
(* sync.RWMutex as [writer, readers]: the caller that holds the write      *)
(* lock (0: none) and the callers that hold a read lock.                   *)
(***************************************************************************)
CanRLock(m) == m.writer = 0

RLock(m, p) == [m EXCEPT !.readers = @ \cup {p}]

RUnlock(m, p) == [m EXCEPT !.readers = @ \ {p}]

\* a write lock that is handed out whoever holds the mutex
CanLockAnyway(m) == TRUE

CanLock(m) == m.writer = 0 /\ m.readers = {}

Lock(m, p) == [m EXCEPT !.writer = p]

Unlock(m, p) == [m EXCEPT !.writer = 0]

(***************************************************************************)
(* GetDirectoryEntry and GetBlob called by up to MaxCallers goroutines on  *)
(* one reader (zim.go:187-267, 280-397).  What matters of the file is      *)
(* where its offset stands: a call seeks to its pointer, reads the head    *)
(* of what is there (the fixed part of an entry, the info byte of a        *)
(* cluster) and then the rest (url and title, the cluster's data).         *)
(***************************************************************************)
MaxCallers == 2

Callers == 1..MaxCallers

\* z.urlPtrs, z.clusterPtrs and z.header.ChecksumPos of the reader the callers share
LockURLPtrs == <<80, 104>>

LockClusterPtrs == <<128, 140>>

LockChecksumPos == 150

\* the arguments of a call: any index, one past the last included
LockOps ==
    { [op |-> "GetDirectoryEntry", n |-> idx] : idx \in 0..Len(LockURLPtrs) }
        \cup { [op |-> "GetBlob", n |-> c] : c \in 0..Len(LockClusterPtrs) }

\* lines 188 and 281
LockInRange(o) ==
    IF o.op = "GetDirectoryEntry" THEN o.n < Len(LockURLPtrs) ELSE o.n < Len(LockClusterPtrs)

\* lines 193 and 286
LockPtr(o) ==
    IF o.op = "GetDirectoryEntry" THEN LockURLPtrs[o.n + 1] ELSE LockClusterPtrs[o.n + 1]

\* the bytes of the first read: lines 205-233 and 303-306
HeadSize(o) == IF o.op = "GetDirectoryEntry" THEN PrefixSize + ContentSize ELSE 1

\* the bytes of what is read after it: the url and the title with their zero bytes
\* (lines 236-260), the cluster behind its info byte (lines 310-314)
RestSize(o) ==
    IF o.op = "GetDirectoryEntry" THEN 4
    ELSE (IF o.n + 1 < Len(LockClusterPtrs) THEN LockClusterPtrs[o.n + 2] ELSE LockChecksumPos)
             - LockClusterPtrs[o.n + 1] - 1

LockCall(o, pc, ptr, from, err) == [o |-> o, pc |-> pc, ptr |-> ptr, reads |-> from, err |-> err]

NoCall == LockCall([op |-> "none", n |-> 0], "idle", 0, <<>>, "none")

LockInit ==
    /\ mu = RWFree
    /\ filePos \in {0, LockChecksumPos}
    /\ calls = [p \in Callers |-> NoCall]
    /\ IdleBack /\ IdleCount /\ IdleRid /\ IdleSrv /\ IdleSplit /\ IdleDl

\* caller p calls GetDirectoryEntry or GetBlob: lines 187-190 and 280-283
LockEnter(p, o) ==
    /\ calls[p].pc \in {"idle", "done"}
    /\ calls' = [calls EXCEPT ![p] =
                    IF LockInRange(o) THEN LockCall(o, "rlock", 0, <<>>, "none")
                    ELSE LockCall(o, "done", 0, <<>>, "out of range")]
    /\ UNCHANGED <<mu, filePos, notLock>>

\* z.mu.RLock(): lines 192 and 285
LockRLock(p) ==
    /\ calls[p].pc = "rlock"
    /\ CanRLock(mu)
    /\ mu' = RLock(mu, p)
    /\ calls' = [calls EXCEPT ![p].pc = "ptr"]
    /\ UNCHANGED <<filePos, notLock>>

\* the pointers are read and z.mu.RUnlock(): lines 193-194 and 286-293
LockReadPtr(p) ==
    /\ calls[p].pc = "ptr"
    /\ mu' = RUnlock(mu, p)
    /\ calls' = [calls EXCEPT ![p].pc = "lock", ![p].ptr = LockPtr(calls[p].o)]
    /\ UNCHANGED <<filePos, notLock>>

\* z.mu.Lock(): lines 196 and 295
LockLock(p) ==
    /\ calls[p].pc = "lock"
    /\ CanLock(mu)
    /\ mu' = Lock(mu, p)
    /\ calls' = [calls EXCEPT ![p].pc = "seek"]
    /\ UNCHANGED <<filePos, notLock>>

\* z.file.Seek: lines 199 and 298
LockSeek(p) ==
    /\ calls[p].pc = "seek"
    /\ filePos' = calls[p].ptr
    /\ calls' = [calls EXCEPT ![p].pc = "head"]
    /\ UNCHANGED <<mu, notLock>>

\* the first reads from where the file stands: lines 205-233 and 303-306
LockReadHead(p) ==
    /\ calls[p].pc = "head"
    /\ filePos' = filePos + HeadSize(calls[p].o)
    /\ calls' = [calls EXCEPT ![p].pc = "rest", ![p].reads = Append(@, filePos)]
    /\ UNCHANGED <<mu, notLock>>

\* the reads that follow and, in GetBlob, the decompression: lines 236-260 and 310-396
LockReadRest(p) ==
    /\ calls[p].pc = "rest"
    /\ filePos' = filePos + RestSize(calls[p].o)
    /\ calls' = [calls EXCEPT ![p].pc = "unlock", ![p].reads = Append(@, filePos)]
    /\ UNCHANGED <<mu, notLock>>

\* the deferred z.mu.Unlock() and the return: lines 197, 266 and 296, 396
LockUnlock(p) ==
    /\ calls[p].pc = "unlock"
    /\ mu' = Unlock(mu, p)
    /\ calls' = [calls EXCEPT ![p].pc = "done", ![p].err = "nil"]
    /\ UNCHANGED <<filePos, notLock>>

LockNext ==
    \E p \in Callers :
        \/ \E o \in LockOps : LockEnter(p, o)
        \/ LockRLock(p)
        \/ LockReadPtr(p)
        \/ LockLock(p)
        \/ LockSeek(p)
        \/ LockReadHead(p)
        \/ LockReadRest(p)
        \/ LockUnlock(p)

SpecLock == LockInit /\ [][LockNext]_vars

\* the callers between their Seek and their Unlock
InSection == { p \in Callers : calls[p].pc \in {"head", "rest", "unlock"} }

\* where the reads of a call are to be made from
OwnReads(o) == << LockPtr(o), LockPtr(o) + HeadSize(o) >>

\* C21: concurrent calls of GetDirectoryEntry and GetBlob never interleave on the file:
\* at most one caller is between its Seek and its Unlock, and every read of a call
\* is made from the position its own Seek and its own reads have set.
C21_ReadsNotInterleaved ==
    /\ Cardinality(InSection) <= 1
    /\ \A p \in Callers :
          \A k \in DOMAIN calls[p].reads : calls[p].reads[k] = OwnReads(calls[p].o)[k]

C21_TwoCallsServed ==
    \E p, q \in Callers :
        /\ calls[p].pc = "unlock" /\ Len(calls[p].reads) = 2
        /\ calls[q].pc = "lock" /\ calls[q].ptr # calls[p].ptr

(***************************************************************************)
(* BlugeIndex.GetDocumentCount called by up to MaxCallers goroutines on    *)
(* one index (zim.go:827-864).  The index reader is not written to after   *)
(* it is opened: a match-all query that succeeds counts countEnv.documents.*)
(***************************************************************************)
MaxDocuments == 2

CountCall(pc, ret, err) == [pc |-> pc, ret |-> ret, err |-> err]

CountInit ==
    /\ cacheMu = RWFree
    /\ docCount = 0
    /\ docCached = FALSE
    /\ countCalls = [p \in Callers |-> CountCall("idle", 0, "none")]
    /\ countEnv \in { [documents |-> d, searches |-> 0] : d \in 0..MaxDocuments }
    /\ IdleBack /\ IdleLock /\ IdleRid /\ IdleSrv /\ IdleSplit /\ IdleDl

\* caller p calls GetDocumentCount: line 828
CountEnter(p) ==
    /\ countCalls[p].pc \in {"idle", "done"}
    /\ countCalls' = [countCalls EXCEPT ![p] = CountCall("rlock", 0, "none")]
    /\ UNCHANGED <<cacheMu, docCount, docCached, countEnv, notCount>>

\* b.cacheMu.RLock(): line 830
CountRLock(p) ==
    /\ countCalls[p].pc = "rlock"
    /\ CanRLock(cacheMu)
    /\ cacheMu' = RLock(cacheMu, p)
    /\ countCalls' = [countCalls EXCEPT ![p].pc = "check"]
    /\ UNCHANGED <<docCount, docCached, countEnv, notCount>>

\* the first look at the cache and b.cacheMu.RUnlock(): lines 831-836
CountCheck(p) ==
    /\ countCalls[p].pc = "check"
    /\ cacheMu' = RUnlock(cacheMu, p)
    /\ countCalls' = [countCalls EXCEPT ![p] =
                         IF docCached THEN CountCall("done", docCount, "nil")
                         ELSE CountCall("lock", 0, "none")]
    /\ UNCHANGED <<docCount, docCached, countEnv, notCount>>

\* b.cacheMu.Lock(): line 839
CountLock(p) ==
    /\ countCalls[p].pc = "lock"
    /\ CanLock(cacheMu)
    /\ cacheMu' = Lock(cacheMu, p)
    /\ countCalls' = [countCalls EXCEPT ![p].pc = "recheck"]
    /\ UNCHANGED <<docCount, docCached, countEnv, notCount>>

\* the second look at the cache: lines 843-845
CountRecheck(p) ==
    /\ countCalls[p].pc = "recheck"
    /\ countCalls' = [countCalls EXCEPT ![p] =
                         IF docCached THEN CountCall("unlock", docCount, "nil")
                         ELSE CountCall("search", 0, "none")]
    /\ UNCHANGED <<cacheMu, docCount, docCached, countEnv, notCount>>

\* the match-all query and, if it succeeds, the writes of the cache: lines 847-862
CountSearch(p, ok) ==
    /\ countCalls[p].pc = "search"
    /\ IF ok
       THEN /\ docCount' = countEnv.documents
            /\ docCached' = TRUE
            /\ countEnv' = [countEnv EXCEPT !.searches = @ + 1]
            /\ countCalls' = [countCalls EXCEPT ![p] = CountCall("unlock", countEnv.documents, "nil")]
       ELSE /\ countCalls' = [countCalls EXCEPT ![p] = CountCall("unlock", 0, "search failed")]
            /\ UNCHANGED <<docCount, docCached, countEnv>>
    /\ UNCHANGED <<cacheMu, notCount>>

\* the deferred b.cacheMu.Unlock() and the return: line 840
CountUnlock(p) ==
    /\ countCalls[p].pc = "unlock"
    /\ cacheMu' = Unlock(cacheMu, p)
    /\ countCalls' = [countCalls EXCEPT ![p].pc = "done"]
    /\ UNCHANGED <<docCount, docCached, countEnv, notCount>>

CountNext ==
    \E p \in Callers :
        \/ CountEnter(p)
        \/ CountRLock(p)
        \/ CountCheck(p)
        \/ CountLock(p)
        \/ CountRecheck(p)
        \/ \E ok \in BOOLEAN : CountSearch(p, ok)
        \/ CountUnlock(p)

SpecCount == CountInit /\ [][CountNext]_vars

\* the callers that have a value to return
CountReturned == { p \in Callers : countCalls[p].pc \in {"unlock", "done"} /\ countCalls[p].err = "nil" }

\* C22: whatever the number of concurrent callers, at most one match-all query
\* succeeds on an index, and all the calls that return a value return the same one.
C22_CountedOnce ==
    /\ countEnv.searches <= 1
    /\ \A p, q \in CountReturned : countCalls[p].ret = countCalls[q].ret

C22_BothReturned ==
    /\ countEnv.searches = 1
    /\ countEnv.documents > 0
    /\ \E p, q \in Callers :
          /\ p # q
          /\ countCalls[p].pc = "done" /\ countCalls[p].err = "nil"
          /\ countCalls[q].pc = "done" /\ countCalls[q].err = "nil"

(***************************************************************************)
(* The random-ID cache of the server (server.go:25-157): the goroutine of  *)
(* the initial fill ("fill"), the refill worker ("worker") and up to       *)
(* MaxHandlers request handlers in getRandomIDFromCache.  The cache size   *)
(* of 100 is scaled down.  The reads of len(randomIDCache) that feed       *)
(* log.Printf change nothing; they are steps of their own where they are   *)
(* made without the mutex.                                                 *)
(***************************************************************************)
randomIDCacheSize == 2

MaxHandlers == 2

HandlerNames == << "h1", "h2", "h3", "h4" >>

Handlers == { HandlerNames[k] : k \in 1..MaxHandlers }

Fillers == {"fill", "worker"}

Goroutines == Fillers \cup Handlers

\* article.Index of the articles GetRandomArticle returns
RandomIDs == {0, 1}

RidProc(pc, i, count) == [pc |-> pc, i |-> i, count |-> count]

\* initRandomIDCache has run: lines 91-103
RidInit ==
    /\ randomIDCache = <<>>
    /\ randomIDMutex = "none"
    /\ randomIDRefill = 0
    /\ ridProcs = [g \in Goroutines |->
                      IF g = "fill" THEN RidProc("get", 0, randomIDCacheSize)
                      ELSE IF g = "worker" THEN RidProc("recv", 0, 0)
                      ELSE RidProc("idle", 0, 0)]
    /\ ridEnv = [dropped |-> FALSE, owed |-> 0]
    /\ IdleBack /\ IdleLock /\ IdleCount /\ IdleSrv /\ IdleSplit /\ IdleDl

\* sync.Mutex
MutexFree(m) == m = "none"

\* a slice that keeps its last element
KeepLast(s) == s

\* randomIDCache[:len(randomIDCache)-1]: line 144
PopLast(s) == SubSeq(s, 1, Len(s) - 1)

\* a channel one slot short
RefillCapShort == randomIDCacheSize - 1

\* make(chan struct{}, randomIDCacheSize): line 94
RefillCap == randomIDCacheSize

\* a mutex that is handed out whoever holds it
MutexFreeAnyway(m) == TRUE

\* fillRandomIDCache calls GetRandomArticle: lines 110 and 116-118
FillGet(g, ok) ==
    /\ g \in Fillers
    /\ ridProcs[g].pc = "get"
    /\ ridProcs[g].i < ridProcs[g].count
    /\ ridProcs' = [ridProcs EXCEPT ![g] = IF ok THEN [@ EXCEPT !.pc = "lock"]
                                            ELSE [@ EXCEPT !.i = @ + 1]]
    /\ ridEnv' = IF g = "worker" THEN [ridEnv EXCEPT !.owed = @ - 1] ELSE ridEnv
    /\ UNCHANGED <<randomIDCache, randomIDMutex, randomIDRefill, notRid>>

\* randomIDMutex.Lock(): line 111
FillLock(g) ==
    /\ g \in Fillers
    /\ ridProcs[g].pc = "lock"
    /\ MutexFree(randomIDMutex)
    /\ randomIDMutex' = g
    /\ ridProcs' = [ridProcs EXCEPT ![g].pc = "append"]
    /\ UNCHANGED <<randomIDCache, randomIDRefill, ridEnv, notRid>>

\* the append and the log of the new length: lines 112-114
FillAppend(g, id) ==
    /\ g \in Fillers
    /\ ridProcs[g].pc = "append"
    /\ randomIDCache' = Append(randomIDCache, id)
    /\ ridProcs' = [ridProcs EXCEPT ![g].pc = "unlock"]
    /\ UNCHANGED <<randomIDMutex, randomIDRefill, ridEnv, notRid>>

\* randomIDMutex.Unlock() and i++: lines 115, 109
FillUnlock(g) ==
    /\ g \in Fillers
    /\ ridProcs[g].pc = "unlock"
    /\ randomIDMutex' = "none"
    /\ ridProcs' = [ridProcs EXCEPT ![g].pc = "get", ![g].i = @ + 1]
    /\ UNCHANGED <<randomIDCache, randomIDRefill, ridEnv, notRid>>

\* the loop of fillRandomIDCache ends: line 109
FillLoopEnd(g) ==
    /\ g \in Fillers
    /\ ridProcs[g].pc = "get"
    /\ ~(ridProcs[g].i < ridProcs[g].count)
    /\ ridProcs' = [ridProcs EXCEPT ![g].pc = "tail"]
    /\ UNCHANGED <<randomIDCache, randomIDMutex, randomIDRefill, ridEnv, notRid>>

\* the log of len(randomIDCache) after the loop and the return: line 120
FillTail(g) ==
    /\ g \in Fillers
    /\ ridProcs[g].pc = "tail"
    /\ ridProcs' = [ridProcs EXCEPT ![g] = IF g = "worker" THEN RidProc("recv", 0, 0)
                                            ELSE RidProc("exit", 0, 0)]
    /\ UNCHANGED <<randomIDCache, randomIDMutex, randomIDRefill, ridEnv, notRid>>

\* the worker receives a signal: line 126
WorkerReceive ==
    /\ ridProcs["worker"].pc = "recv"
    /\ randomIDRefill > 0
    /\ randomIDRefill' = randomIDRefill - 1
    /\ ridProcs' = [ridProcs EXCEPT !["worker"].pc = "log"]
    /\ UNCHANGED <<randomIDCache, randomIDMutex, ridEnv, notRid>>

\* the log of len(randomIDCache) and the call fillRandomIDCache(1): lines 127-128
WorkerLog ==
    /\ ridProcs["worker"].pc = "log"
    /\ ridProcs' = [ridProcs EXCEPT !["worker"] = RidProc("get", 0, 1)]
    /\ UNCHANGED <<randomIDCache, randomIDMutex, randomIDRefill, ridEnv, notRid>>

\* a handler calls getRandomIDFromCache: line 133
HandlerEnter(h) ==
    /\ h \in Handlers
    /\ ridProcs[h].pc = "idle"
    /\ ridProcs' = [ridProcs EXCEPT ![h].pc = "lock"]
    /\ UNCHANGED <<randomIDCache, randomIDMutex, randomIDRefill, ridEnv, notRid>>

\* randomIDMutex.Lock(): line 134
HandlerLock(h) ==
    /\ h \in Handlers
    /\ ridProcs[h].pc = "lock"
    /\ MutexFree(randomIDMutex)
    /\ randomIDMutex' = h
    /\ ridProcs' = [ridProcs EXCEPT ![h].pc = "body"]
    /\ UNCHANGED <<randomIDCache, randomIDRefill, ridEnv, notRid>>

\* the pop and the non-blocking send: lines 137-154
HandlerBody(h) ==
    /\ h \in Handlers
    /\ ridProcs[h].pc = "body"
    /\ ridProcs' = [ridProcs EXCEPT ![h].pc = "unlock"]
    /\ IF Len(randomIDCache) = 0
       THEN UNCHANGED <<randomIDCache, randomIDRefill, ridEnv>>
       ELSE /\ randomIDCache' = PopLast(randomIDCache)
            /\ IF randomIDRefill < RefillCap
               THEN /\ randomIDRefill' = randomIDRefill + 1
                    /\ ridEnv' = [ridEnv EXCEPT !.owed = @ + 1]
               ELSE /\ ridEnv' = [ridEnv EXCEPT !.owed = @ + 1, !.dropped = TRUE]
                    /\ UNCHANGED randomIDRefill
    /\ UNCHANGED <<randomIDMutex, notRid>>

\* the deferred randomIDMutex.Unlock() and the return: lines 135, 156
HandlerUnlock(h) ==
    /\ h \in Handlers
    /\ ridProcs[h].pc = "unlock"
    /\ randomIDMutex' = "none"
    /\ ridProcs' = [ridProcs EXCEPT ![h].pc = "idle"]
    /\ UNCHANGED <<randomIDCache, randomIDRefill, ridEnv, notRid>>

\* the steps of goroutine g but the start of a request
RidRun(g) ==
    \/ \E ok \in BOOLEAN : FillGet(g, ok)
    \/ \E id \in RandomIDs : FillAppend(g, id)
    \/ FillUnlock(g)
    \/ FillLoopEnd(g)
    \/ FillTail(g)
    \/ (g = "worker" /\ WorkerReceive)
    \/ (g = "worker" /\ WorkerLog)
    \/ HandlerBody(g)
    \/ HandlerUnlock(g)

RidAcquire(g) == FillLock(g) \/ HandlerLock(g)

RidNext ==
    \E g \in Goroutines :
        \/ RidRun(g)
        \/ RidAcquire(g)
        \/ HandlerEnter(g)

SpecRid == RidInit /\ [][RidNext]_vars

\* C23: the cache never holds more than randomIDCacheSize IDs.
C23_CacheBounded == Len(randomIDCache) <= randomIDCacheSize

C23_FullCachePopped ==
    /\ Len(randomIDCache) = randomIDCacheSize
    /\ ridProcs["fill"].pc = "exit"
    /\ ridProcs["worker"].pc = "unlock"

(***************************************************************************)
(* Scheduling: the Go scheduler runs every runnable goroutine, and a       *)
(* sync.Mutex in starvation mode hands the lock to a goroutine that has    *)
(* waited for it, so a waiting Lock() is not passed over forever.          *)
(***************************************************************************)
RidFairness ==
    \A g \in Goroutines : WF_vars(RidRun(g)) /\ SF_vars(RidAcquire(g))

SpecRidFair == RidInit /\ [][RidNext]_vars /\ RidFairness

\* signals the worker has received and not yet followed by its fill attempt
RefillInFlight ==
    IF \/ ridProcs["worker"].pc = "log"
       \/ ridProcs["worker"].pc = "get" /\ ridProcs["worker"].i = 0
    THEN 1 ELSE 0

WorkerAttempts == ridProcs["worker"].pc = "get" /\ ridProcs["worker"].i = 0

\* C24: no send of a refill signal finds the channel full, every pop is owed
\* exactly one fill attempt (the signals queued plus the one in the worker's
\* hands), and a queued signal leads to a fill attempt of the worker.
C24_NoRefillLost ==
    /\ [](~ridEnv.dropped /\ ridEnv.owed = randomIDRefill + RefillInFlight)
    /\ (randomIDRefill > 0) ~> WorkerAttempts

C24_ChannelFull ==
    /\ randomIDRefill = RefillCap
    /\ ridEnv.owed = RefillCap
    /\ ridProcs["worker"].pc = "recv"

\* C25: a goroutine about to read or write randomIDCache, its length
\* included, holds randomIDMutex.
RidAccessPcs == {"append", "body", "tail", "log"}

C25_AccessUnderMutex ==
    \A g \in Goroutines : ridProcs[g].pc \in RidAccessPcs => randomIDMutex = g

(***************************************************************************)
(* The pagination of serveWikiSearch (server.go:200-242) and of            *)
(* serveWikiArticle (server.go:268-313).  A request carries the value      *)
(* strconv.Atoi gave for the `o` or `p` parameter and the size of what the *)
(* wiki holds for it: the documents matching the query, or the chunks of   *)
(* the article.  A response is the slice of the list that was served, or   *)
(* the panic of the Go runtime on an index out of range.                   *)
(***************************************************************************)
maxResults == 10

MaxSrvParam == 12

MaxNegParam == 3

MaxMatches == 13

MaxChunks == 3

SrvParams == (0 - MaxNegParam)..MaxSrvParam

SrvResp(outcome, from, to, more) ==
    [outcome |-> outcome, from |-> from, to |-> to, ShowMore |-> more]

\* s[lo:hi] of a slice of length n: the runtime panics unless 0 <= lo <= hi <= n
SliceExpr(n, lo, hi, more) ==
    IF 0 <= lo /\ lo <= hi /\ hi <= n THEN SrvResp("ok", lo, hi, more)
    ELSE SrvResp("panic", 0, 0, FALSE)

\* s[i] of a slice of length n: the runtime panics unless 0 <= i < n
IndexExpr(n, i, more) ==
    IF 0 <= i /\ i < n THEN SrvResp("ok", i, i + 1, more)
    ELSE SrvResp("panic", 0, 0, FALSE)

\* the number of results of BlugeIndex.Search(query, limit), a top-N search
SearchLen(matches, limit) == Min(matches, limit)

\* lines 219-229 on a result list of length n
SearchPage(offset, n) ==
    IF offset < n
    THEN IF offset + maxResults < n
         THEN SliceExpr(n, offset, offset + maxResults, TRUE)
         ELSE SliceExpr(n, offset, n, FALSE)
    ELSE SrvResp("ok", 0, 0, FALSE)

\* lines 296-303 on a chunk list of length n
ArticlePage(page, n) ==
    IF page < n THEN IndexExpr(n, page, page + 1 < n)
    ELSE IF n > 0 THEN IndexExpr(n, n - 1, FALSE)
    ELSE SrvResp("ok", 0, 0, FALSE)

SrvInit ==
    /\ srvReq \in ([handler : {"search"}, param : SrvParams, items : 0..MaxMatches]
                   \cup [handler : {"article"}, param : SrvParams, items : 0..MaxChunks])
    /\ srvResp = SrvResp("none", 0, 0, FALSE)
    /\ IdleBack /\ IdleLock /\ IdleCount /\ IdleRid /\ IdleSplit /\ IdleDl

\* serveWikiSearch: lines 200-242
ServeSearch(ok) ==
    /\ srvReq.handler = "search"
    /\ srvResp.outcome = "none"
    /\ srvResp' = IF ok
                  THEN SearchPage(srvReq.param,
                                  SearchLen(srvReq.items, maxResults + srvReq.param + 1))
                  ELSE SrvResp("error", 0, 0, FALSE)
    /\ UNCHANGED <<srvReq, notSrv>>

\* serveWikiArticle: lines 268-313
ServeArticle(ok) ==
    /\ srvReq.handler = "article"
    /\ srvResp.outcome = "none"
    /\ srvResp' = IF ok THEN ArticlePage(srvReq.param, srvReq.items)
                  ELSE SrvResp("error", 0, 0, FALSE)
    /\ UNCHANGED <<srvReq, notSrv>>

SrvNext ==
    \/ \E ok \in BOOLEAN : ServeSearch(ok)
    \/ \E ok \in BOOLEAN : ServeArticle(ok)

SpecSrv == SrvInit /\ [][SrvNext]_vars

SearchServed == srvReq.handler = "search" /\ srvResp.outcome \notin {"none", "error"}

ArticleServed == srvReq.handler = "article" /\ srvResp.outcome \notin {"none", "error"}

ResultsLen == SearchLen(srvReq.items, maxResults + srvReq.param + 1)

\* C26: for every offset serveWikiSearch slices the results within their
\* bounds: at most 10 results, those of results[offset : offset+10], and
\* ShowMore exactly when more than offset+10 results were returned.
C26_SearchSliceInBounds ==
    SearchServed =>
        /\ srvResp.outcome = "ok"
        /\ 0 <= srvResp.from /\ srvResp.from <= srvResp.to /\ srvResp.to <= ResultsLen
        /\ srvResp.to - srvResp.from <= maxResults
        /\ srvResp.from < srvResp.to =>
              /\ srvResp.from = srvReq.param
              /\ srvResp.to = Min(srvReq.param + maxResults, ResultsLen)
        /\ srvResp.ShowMore <=> ResultsLen > srvReq.param + maxResults

\* C27: for every page serveWikiArticle indexes the chunks at a position in
\* [0, len(chunks)), and ShowMore exactly when a chunk follows the one served.
C27_ChunkIndexInBounds ==
    ArticleServed =>
        /\ srvResp.outcome = "ok"
        /\ srvResp.from < srvResp.to =>
              /\ 0 <= srvResp.from /\ srvResp.from < srvReq.items
        /\ srvResp.ShowMore <=> (srvResp.from < srvResp.to /\ srvResp.from + 1 < srvReq.items)

\* the loop of FindArticleByURL is about to probe: `left <= right` holds
FindProbes == findPc = "loop" /\ U32Leq(left, right)

\* C28: on a directory of one entry or more, every probe index mid satisfies
\* left <= mid <= right < entry_count, and the loop terminates.
C28_ProbeWithinRange ==
    /\ [](FindProbes /\ findZ.ArticleCount # U32(0) =>
             /\ U32Leq(left, FindMid(left, right))
             /\ U32Leq(FindMid(left, right), right)
             /\ U32Less(right, findZ.ArticleCount))
    /\ (findPc = "loop" /\ findZ.ArticleCount # U32(0)) ~> (findPc = "done")

(***************************************************************************)
(* DownloadDump (download.go:35-120).  The body of the response is a       *)
(* number of blocks; a file is the number of blocks of the body it holds,  *)
(* NoFile when the path does not exist.  A Read hands over at most one     *)
(* block, and io.EOF comes only when the whole body has been handed over.  *)
(* os.Remove acts on the file this call created in a directory it has just *)
(* written to; its result, which the code does not look at, is taken to be *)
(* success.                                                                *)
(***************************************************************************)
MaxBlocks == 2

NoFile == 0 - 1

\* a temporary file that stays
KeepTemp(fs) == fs

\* os.Remove(tempPath): lines 88, 108, 115
RemoveTemp(fs) == [fs EXCEPT !.temp = NoFile]

\* the files found by a call: no destination or a complete one from an
\* earlier call, no temporary file or one left by an interrupted run
DlInit ==
    /\ dlPc = "idle"
    /\ dlRet = "none"
    /\ \E body \in 0..MaxBlocks :
          /\ dlCall = [body |-> body, downloaded |-> 0, made |-> FALSE]
          /\ dlFs \in [temp : {NoFile} \cup 0..(body - 1), dest : {NoFile, body}]
    /\ IdleBack /\ IdleLock /\ IdleCount /\ IdleRid /\ IdleSrv /\ IdleSplit

\* the language lookup and os.MkdirAll: lines 36-44
DlStart(outcome) ==
    /\ dlPc = "idle"
    /\ IF outcome = "ok"
       THEN dlPc' = "stat" /\ UNCHANGED dlRet
       ELSE dlPc' = "done" /\ dlRet' = outcome
    /\ UNCHANGED <<dlFs, dlCall, notDl>>

\* os.Stat(destPath): lines 52-55
DlStat(ok) ==
    /\ dlPc = "stat"
    /\ ok => dlFs.dest # NoFile
    /\ IF ok
       THEN dlPc' = "done" /\ dlRet' = "nil"
       ELSE dlPc' = "get" /\ UNCHANGED dlRet
    /\ UNCHANGED <<dlFs, dlCall, notDl>>

\* http.Get and the status test: lines 58-66
DlGet(outcome) ==
    /\ dlPc = "get"
    /\ IF outcome = "ok"
       THEN dlPc' = "create" /\ UNCHANGED dlRet
       ELSE dlPc' = "done" /\ dlRet' = outcome
    /\ UNCHANGED <<dlFs, dlCall, notDl>>

\* os.Create(tempPath): lines 69-74
DlCreate(ok) ==
    /\ dlPc = "create"
    /\ IF ok
       THEN /\ dlFs' = [dlFs EXCEPT !.temp = 0]
            /\ dlCall' = [dlCall EXCEPT !.made = TRUE]
            /\ dlPc' = "read"
            /\ UNCHANGED dlRet
       ELSE /\ dlPc' = "done"
            /\ dlRet' = "failed to create file"
            /\ UNCHANGED <<dlFs, dlCall>>
    /\ UNCHANGED notDl

\* one iteration of the copy loop: lines 83-111
DlCopy(n, err, written) ==
    /\ dlPc = "read"
    /\ n \in 0..1
    /\ dlCall.downloaded + n <= dlCall.body
    /\ err = "EOF" => dlCall.downloaded + n = dlCall.body
    /\ err = "nil" => n > 0
    /\ IF n > 0 /\ ~written
       THEN /\ dlFs' = RemoveTemp(dlFs)
            /\ dlPc' = "done"
            /\ dlRet' = "failed to write"
            /\ UNCHANGED dlCall
       ELSE /\ dlCall' = [dlCall EXCEPT !.downloaded = @ + n]
            /\ IF err = "EOF"
               THEN /\ dlFs' = [dlFs EXCEPT !.temp = @ + n]
                    /\ dlPc' = "rename"
                    /\ UNCHANGED dlRet
               ELSE IF err # "nil"
               THEN /\ dlFs' = RemoveTemp([dlFs EXCEPT !.temp = @ + n])
                    /\ dlPc' = "done"
                    /\ dlRet' = "download error"
               ELSE /\ dlFs' = [dlFs EXCEPT !.temp = @ + n]
                    /\ UNCHANGED <<dlPc, dlRet>>
    /\ UNCHANGED notDl

\* os.Rename(tempPath, destPath): lines 114-119
DlRename(ok) ==
    /\ dlPc = "rename"
    /\ dlPc' = "done"
    /\ IF ok
       THEN /\ dlFs' = [temp |-> NoFile, dest |-> dlFs.temp]
            /\ dlRet' = "nil"
       ELSE /\ dlFs' = RemoveTemp(dlFs)
            /\ dlRet' = "failed to rename file"
    /\ UNCHANGED <<dlCall, notDl>>

DlNext ==
    \/ \E outcome \in {"ok", "unknown language/dump", "failed to create directory"} :
          DlStart(outcome)
    \/ \E ok \in BOOLEAN : DlStat(ok)
    \/ \E outcome \in {"ok", "failed to start download", "HTTP error"} : DlGet(outcome)
    \/ \E ok \in BOOLEAN : DlCreate(ok)
    \/ \E n \in 0..1, err \in {"nil", "EOF", "unexpected EOF"}, written \in BOOLEAN :
          DlCopy(n, err, written)
    \/ \E ok \in BOOLEAN : DlRename(ok)

SpecDl == DlInit /\ [][DlNext]_vars

SepPositions(s, sep) == { i \in 1..Len(s) : s[i] = sep }

\* the position of the k-th sep of s; 0 for k = 0, Len(s) + 1 past the last
NthSep(s, sep, k) ==
    IF k = 0 THEN 0
    ELSE IF k > Cardinality(SepPositions(s, sep)) THEN Len(s) + 1
    ELSE CHOOSE i \in SepPositions(s, sep) :
             Cardinality({ j \in SepPositions(s, sep) : j <= i }) = k

\* strings.Split(s, sep) for a separator of one byte
Split(s, sep) ==
    [k \in 1..(Cardinality(SepPositions(s, sep)) + 1) |->
        SubSeq(s, NthSep(s, sep, k - 1) + 1, NthSep(s, sep, k) - 1)]

\* the positions where a word of s starts, and where the word from i ends
WordStarts(s) == { i \in 1..Len(s) : ~IsSpace(s[i]) /\ (i = 1 \/ IsSpace(s[i - 1])) }

WordEnd(s, i) ==
    CHOOSE e \in i..Len(s) :
        /\ \A j \in i..e : ~IsSpace(s[j])
        /\ e = Len(s) \/ IsSpace(s[e + 1])

NthWordStart(s, k) ==
    CHOOSE i \in WordStarts(s) : Cardinality({ j \in WordStarts(s) : j <= i }) = k

\* strings.Fields(s)
Fields(s) ==
    [k \in 1..Cardinality(WordStarts(s)) |->
        SubSeq(s, NthWordStart(s, k), WordEnd(s, NthWordStart(s, k)))]

SplitState(chunks, current) == [chunks |-> chunks, current |-> current]

\* the flush of lines 1160-1163 and 1169-1172 before a piece of length n
FlushBefore(st, n, maxLength) ==
    IF Len(st.current) + n + 1 > maxLength /\ Len(st.current) > 0
    THEN SplitState(Append(st.chunks, TrimSpace(st.current)), <<>>)
    ELSE st

\* WriteByte(sep) when current is not empty, then WriteString(piece)
WritePiece(st, sep, piece) ==
    SplitState(st.chunks,
               IF Len(st.current) > 0 THEN st.current \o <<sep>> \o piece ELSE piece)

\* the body of the loop over the words: lines 1169-1176
AddWord(st, word, maxLength) ==
    WritePiece(FlushBefore(st, Len(word), maxLength), 32, word)

RECURSIVE AddWords(_, _, _, _)
AddWords(st, words, k, maxLength) ==
    IF k > Len(words) THEN st
    ELSE AddWords(AddWord(st, words[k], maxLength), words, k + 1, maxLength)

\* the body of the loop over the lines: lines 1160-1183
AddLine(st, line, maxLength) ==
    IF Len(line) > maxLength
    THEN AddWords(FlushBefore(st, Len(line), maxLength), Fields(line), 1, maxLength)
    ELSE WritePiece(FlushBefore(st, Len(line), maxLength), 10, line)

RECURSIVE AddLines(_, _, _, _)
AddLines(st, lines, k, maxLength) ==
    IF k > Len(lines) THEN st
    ELSE AddLines(AddLine(st, lines[k], maxLength), lines, k + 1, maxLength)

\* the last flush: lines 1186-1190
SplitFinish(st) ==
    IF Len(st.current) > 0 THEN Append(st.chunks, TrimSpace(st.current)) ELSE st.chunks

SplitContent(content, maxLength) ==
    IF Len(content) <= maxLength THEN << content >>
    ELSE SplitFinish(AddLines(SplitState(<<>>, <<>>), Split(content, 10), 1, maxLength))

MaxSplitLen == 5

MaxMaxLength == 3

\* 'a', 'b', space and newline
SplitBytes == {97, 98, 32, 10}

SplitContents == UNION { [1..n -> SplitBytes] : n \in 0..MaxSplitLen }

SplitInit ==
    /\ splitArgs \in [content : SplitContents, maxLength : 1..MaxMaxLength]
    /\ splitRet = [called |-> FALSE, chunks |-> <<>>]
    /\ IdleBack /\ IdleLock /\ IdleCount /\ IdleRid /\ IdleSrv /\ IdleDl

\* a call of SplitContent(content, maxLength)
SplitCall ==
    /\ ~splitRet.called
    /\ splitRet' = [called |-> TRUE,
                    chunks |-> SplitContent(splitArgs.content, splitArgs.maxLength)]
    /\ UNCHANGED <<splitArgs, notSplit>>

SplitNext == SplitCall

SpecSplit == SplitInit /\ [][SplitNext]_vars

\* C30: every chunk SplitContent returns is at most maxLength long.
C30_ChunksFit ==
    splitRet.called =>
        \A k \in 1..Len(splitRet.chunks) : Len(splitRet.chunks[k]) <= splitArgs.maxLength
====
